---- MODULE Spec2Model ----
(***************************************************************************)
(* Constituent unification engine                                          *)
(* (src/src/constituent_unification/identity_resolver.py) and the retry of *)
(* the source connectors (src/src/integrations/base_connector.py).         *)
(*                                                                         *)
(* Representation.                                                         *)
(*   - A Python str is a sequence of one-character strings; Python None is *)
(*     the value None below, so "absent" and "empty" stay distinct and     *)
(*     Truthy is Python's truth test of an Optional[str].                  *)
(*   - A float in [0,1] is an exact fraction on a fixed scale: similarity  *)
(*     values are counted in 1/SimScale, feature scores in 1/ScoreScale,   *)
(*     weights and thresholds in hundredths and confidences in             *)
(*     1/ConfScale.  Every division the code performs is exact on these    *)
(*     scales for strings of at most 12 characters.                        *)
(*   - datetime values are positive integers (later is larger), NoTime is  *)
(*     an absent timestamp.                                                *)
(***************************************************************************)
EXTENDS Integers, Sequences, FiniteSets, TLC

VARIABLES
    config,                 \* ConstituentUnifier.config (NotBuilt before construction)
    records,                \* the caller's list of SourceRecord instances
    email_index,            \* IdentityResolver._email_index
    phone_index,            \* IdentityResolver._phone_index
    unified_constituents,   \* ConstituentUnifier.unified_constituents
    record_to_constituent,  \* ConstituentUnifier.record_to_constituent
    returned,               \* what the last unify_records call returned
    enable_probabilistic,   \* the flag of the last unify_records call
    pc,                     \* position of the caller
    record_a,               \* first argument of compare_records
    record_b,               \* second argument of compare_records
    match_result,           \* the MatchResult compare_records returned
    phone,                  \* the phone argument of SourceRecord(...)
    normalized,             \* its phone field, and that of a SourceRecord built from it
    statistics,             \* what the last get_match_statistics call returned
    cluster,                \* the records argument of the ConflictResolver methods
    canonical,              \* what the ConflictResolver methods returned for it
    query,                  \* the record argument of find_matches
    candidate_list,         \* its candidates argument
    found,                  \* the list find_matches returned
    index_builds,           \* the number of build_indices calls on the resolver
    string_a,               \* the first argument of jaro_winkler_similarity
    string_b,               \* its second argument
    similarity,             \* what it returned, in 1/SimScale
    permuted,               \* the input list in another order, given to a second unifier
    partition_permuted,     \* the sets of record keys of the constituents the second unifier returned
    float_confidence,       \* the confidence of match_result as the 64-bit float that Python computes
    runs,                   \* per earlier call of unify_records on this unifier, the list given and the list returned
    connector_config,       \* self.config of the connector: max_retries and retry_delay_seconds
    is_connected,           \* self.is_connected
    _metrics,               \* self._metrics
    calls,                  \* the calls of extract_with_retry begun
    attempt,                \* the loop variable of extract_with_retry
    tries,                  \* the attempts at connect and extract that the current call began
    last_error,             \* last_error of extract_with_retry
    slept,                  \* the delays the current call slept, in order
    extract_result          \* how the last call of extract_with_retry ended: what it returned or raised

vars == <<config, records, email_index, phone_index, unified_constituents,
          record_to_constituent, returned, enable_probabilistic, pc,
          record_a, record_b, match_result, phone, normalized,
          statistics, cluster, canonical,
          query, candidate_list, found, index_builds,
          string_a, string_b, similarity,
          permuted, partition_permuted,
          float_confidence,
          runs,
          connector_config, is_connected, _metrics, calls, attempt, tries, last_error, slept, extract_result>>

unifierVars == <<config, records, email_index, phone_index, unified_constituents,
                 record_to_constituent, returned, enable_probabilistic>>

compareVars == <<record_a, record_b, match_result>>

phoneVars == <<phone, normalized>>

statsVars == <<statistics>>

resolveVars == <<cluster, canonical>>

findVars == <<query, candidate_list, found, index_builds>>

similarityVars == <<string_a, string_b, similarity>>

orderVars == <<permuted, partition_permuted>>

floatVars == <<float_confidence>>

runsVars == <<runs>>

connectorVars == <<connector_config, is_connected, _metrics, calls, attempt, tries, last_error, slept, extract_result>>

-----------------------------------------------------------------------------
(* Python values                                                           *)

None == <<"None">>

NoTime == 0

Truthy(s) == s # None /\ s # <<>>

Digits == {"0", "1", "2", "3", "4", "5", "6", "7", "8", "9"}

Whitespace == {" ", "\t"}

UpperToLower ==
    [A |-> "a", B |-> "b", C |-> "c", D |-> "d", E |-> "e", F |-> "f", G |-> "g",
     H |-> "h", I |-> "i", J |-> "j", K |-> "k", L |-> "l", M |-> "m", N |-> "n",
     O |-> "o", P |-> "p", Q |-> "q", R |-> "r", S |-> "s", T |-> "t", U |-> "u",
     V |-> "v", W |-> "w", X |-> "x", Y |-> "y", Z |-> "z"]

LowerChar(c) == IF c \in DOMAIN UpperToLower THEN UpperToLower[c] ELSE c

\* str.lower()
lower(s) == [i \in 1..Len(s) |-> LowerChar(s[i])]

RECURSIVE lstrip(_)
lstrip(s) == IF s # <<>> /\ Head(s) \in Whitespace THEN lstrip(Tail(s)) ELSE s

RECURSIVE rstrip(_)
rstrip(s) ==
    IF s # <<>> /\ s[Len(s)] \in Whitespace THEN rstrip(SubSeq(s, 1, Len(s) - 1)) ELSE s

\* str.strip()
strip(s) == rstrip(lstrip(s))

\* str.startswith(p)
startswith(s, p) == Len(p) <= Len(s) /\ SubSeq(s, 1, Len(p)) = p

\* s[:n]
Prefix(s, n) == SubSeq(s, 1, IF Len(s) < n THEN Len(s) ELSE n)

\* s[-n:]
Suffix(s, n) == SubSeq(s, IF Len(s) < n THEN 1 ELSE Len(s) - n + 1, Len(s))

\* set(s)
Chars(s) == {s[i] : i \in 1..Len(s)}

\* str.split(): the maximal runs of non-whitespace characters, in order
RECURSIVE SplitFrom(_, _, _)
SplitFrom(s, i, word) ==
    IF i > Len(s)
    THEN IF word = <<>> THEN <<>> ELSE <<word>>
    ELSE IF s[i] \in Whitespace
         THEN IF word = <<>>
              THEN SplitFrom(s, i + 1, <<>>)
              ELSE <<word>> \o SplitFrom(s, i + 1, <<>>)
         ELSE SplitFrom(s, i + 1, Append(word, s[i]))

split(s) == SplitFrom(s, 1, <<>>)

Max(a, b) == IF a >= b THEN a ELSE b

-----------------------------------------------------------------------------
(* Fixed-point scales for the floats of the module                         *)

\* least common multiple of 1..12: the similarity of strings of at most 12
\* characters is exact on this scale
SimScale == 2 * 2 * 2 * 3 * 3 * 5 * 7 * 11

\* a feature score s is the integer s * ScoreScale
ScoreScale == 10 * SimScale

\* a confidence c is the integer c * ConfScale; weights and thresholds are hundredths
ConfScale == 100 * ScoreScale

-----------------------------------------------------------------------------
(* MatchConfig                                                             *)

generic_emails ==
    { <<"i", "n", "f", "o", "@">>,
      <<"a", "d", "m", "i", "n", "@">>,
      <<"s", "u", "p", "p", "o", "r", "t", "@">>,
      <<"c", "o", "n", "t", "a", "c", "t", "@">>,
      <<"h", "e", "l", "l", "o", "@">>,
      <<"n", "o", "r", "e", "p", "l", "y", "@">>,
      <<"n", "o", "-", "r", "e", "p", "l", "y", "@">>,
      <<"w", "e", "b", "m", "a", "s", "t", "e", "r", "@">>,
      <<"p", "o", "s", "t", "m", "a", "s", "t", "e", "r", "@">> }

\* MatchConfig(): the dataclass with its defaults
MatchConfig ==
    [generic_emails       |-> generic_emails,
     auto_match_threshold |-> 85,
     review_threshold     |-> 70,
     name_weight          |-> 35,
     address_weight       |-> 30,
     phone_weight         |-> 15,
     email_domain_weight  |-> 10,
     zip_weight           |-> 10,
     prefer_most_recent   |-> TRUE,
     prefer_longest_name  |-> TRUE]

-----------------------------------------------------------------------------
(* SourceRecord                                                            *)

\* a normalization that keeps the leading 1 of 11 digits
_normalize_phone_keeping_1(p) ==
    IF Len(SelectSeq(p, LAMBDA c : c \in Digits)) = 10
    THEN SelectSeq(p, LAMBDA c : c \in Digits)
    ELSE p

\* SourceRecord._normalize_phone
_normalize_phone(p) ==
    LET digits  == SelectSeq(p, LAMBDA c : c \in Digits)
        digits2 == IF Len(digits) = 11 /\ digits[1] = "1" THEN Tail(digits) ELSE digits
    IN  IF Len(digits2) = 10 THEN digits2 ELSE p

\* SourceRecord.__init__ followed by __post_init__ on the raw field values
SourceRecord(raw) ==
    [source_system |-> raw.source_system,
     source_id     |-> raw.source_id,
     email         |-> IF Truthy(raw.email) THEN strip(lower(raw.email)) ELSE raw.email,
     phone         |-> IF Truthy(raw.phone) THEN _normalize_phone(raw.phone) ELSE raw.phone,
     first_name    |-> IF Truthy(raw.first_name) THEN strip(raw.first_name) ELSE raw.first_name,
     last_name     |-> IF Truthy(raw.last_name) THEN strip(raw.last_name) ELSE raw.last_name,
     full_name     |-> IF Truthy(raw.full_name) THEN strip(raw.full_name) ELSE raw.full_name,
     address_line1 |-> raw.address_line1,
     city          |-> raw.city,
     state         |-> raw.state,
     zip_code      |-> IF Truthy(raw.zip_code)
                       THEN (IF Len(raw.zip_code) >= 5 THEN Prefix(raw.zip_code, 5)
                             ELSE raw.zip_code)
                       ELSE raw.zip_code,
     updated_at    |-> raw.updated_at]

\* SourceRecord.record_key: f"{source_system}:{source_id}"
record_key(r) == r.source_system \o <<":">> \o r.source_id

-----------------------------------------------------------------------------
(* IdentityResolver: feature scorers                                       *)

\* "Simple character overlap ratio" of the lower-cased strings, in 1/SimScale:
\* the characters of a that occur in b, over the longer length
OverlapRatio(a, b) ==
    IF Chars(a) \cap Chars(b) = {} THEN 0
    ELSE (Cardinality({i \in 1..Len(a) : a[i] \in Chars(b)}) * SimScale)
         \div Max(Len(a), Len(b))

\* the fallback jaro_winkler_similarity of the module (jellyfish not installed)
jaro_winkler_similarity(s1, s2) ==
    IF s1 = s2 THEN SimScale
    ELSE IF s1 = <<>> \/ s2 = <<>> THEN 0
    ELSE OverlapRatio(lower(s1), lower(s2))

\* IdentityResolver._is_generic_email
_is_generic_email(cfg, email) ==
    IF ~Truthy(email) THEN TRUE
    ELSE \E generic \in cfg.generic_emails : startswith(lower(email), generic)

\* the name parts of the words of a full name
FirstAndLast(parts) ==
    IF Len(parts) >= 2 THEN <<lower(parts[1]), lower(parts[Len(parts)])>>
    ELSE IF Len(parts) = 1 THEN <<lower(parts[1]), <<>> >>
    ELSE << <<>>, <<>> >>

\* IdentityResolver._extract_name_parts: <<first, last>>
_extract_name_parts(record) ==
    IF Truthy(record.first_name) /\ Truthy(record.last_name)
    THEN <<lower(record.first_name), lower(record.last_name)>>
    ELSE IF Truthy(record.full_name)
         THEN FirstAndLast(split(strip(record.full_name)))
         ELSE << <<>>, <<>> >>

\* first_sim or last_sim of _calculate_name_similarity, in 1/SimScale
PartSimilarity(part_a, part_b) ==
    IF part_a # <<>> /\ part_b # <<>> THEN jaro_winkler_similarity(part_a, part_b) ELSE 0

\* the score of the name parts <<first_a, last_a>> and <<first_b, last_b>>
NameScore(parts_a, parts_b) ==
    IF (parts_a[1] = <<>> /\ parts_a[2] = <<>>) \/ (parts_b[1] = <<>> /\ parts_b[2] = <<>>)
    THEN 0
    ELSE PartSimilarity(parts_a[1], parts_b[1]) * 4 + PartSimilarity(parts_a[2], parts_b[2]) * 6

\* IdentityResolver._calculate_name_similarity, in 1/ScoreScale
_calculate_name_similarity(a, b) ==
    NameScore(_extract_name_parts(a), _extract_name_parts(b))

\* \w of the regular expressions
WordChars == Digits \cup {"_"} \cup DOMAIN UpperToLower
             \cup {UpperToLower[c] : c \in DOMAIN UpperToLower}

\* the word replacements of _normalize_address, each pattern \bword\b
Abbreviation(word) ==
    CASE word = <<"s", "t", "r", "e", "e", "t">> -> <<"s", "t">>
      [] word = <<"s", "t", "r">> -> <<"s", "t">>
      [] word = <<"a", "v", "e", "n", "u", "e">> -> <<"a", "v", "e">>
      [] word = <<"a", "v">> -> <<"a", "v", "e">>
      [] word = <<"r", "o", "a", "d">> -> <<"r", "d">>
      [] word = <<"d", "r", "i", "v", "e">> -> <<"d", "r">>
      [] word = <<"b", "o", "u", "l", "e", "v", "a", "r", "d">> -> <<"b", "l", "v", "d">>
      [] word = <<"l", "a", "n", "e">> -> <<"l", "n">>
      [] word = <<"c", "o", "u", "r", "t">> -> <<"c", "t">>
      [] word = <<"a", "p", "a", "r", "t", "m", "e", "n", "t">> -> <<"a", "p", "t">>
      [] word = <<"u", "n", "i", "t">> -> <<"a", "p", "t">>
      [] word = <<"s", "u", "i", "t", "e">> -> <<"s", "t", "e">>
      [] word = <<"n", "o", "r", "t", "h">> -> <<"n">>
      [] word = <<"s", "o", "u", "t", "h">> -> <<"s">>
      [] word = <<"e", "a", "s", "t">> -> <<"e">>
      [] word = <<"w", "e", "s", "t">> -> <<"w">>
      [] OTHER -> word

\* the sixteen word substitutions: every maximal run of word characters is
\* looked up, everything between the runs is kept
RECURSIVE ReplaceWords(_, _, _)
ReplaceWords(s, i, word) ==
    IF i > Len(s) THEN Abbreviation(word)
    ELSE IF s[i] \in WordChars THEN ReplaceWords(s, i + 1, Append(word, s[i]))
    ELSE Abbreviation(word) \o <<s[i]>> \o ReplaceWords(s, i + 1, <<>>)

\* re.sub(r'\s+', ' ', s)
RECURSIVE CollapseSpaces(_, _)
CollapseSpaces(s, i) ==
    IF i > Len(s) THEN <<>>
    ELSE IF s[i] \in Whitespace
         THEN IF i > 1 /\ s[i - 1] \in Whitespace THEN CollapseSpaces(s, i + 1)
              ELSE <<" ">> \o CollapseSpaces(s, i + 1)
         ELSE <<s[i]>> \o CollapseSpaces(s, i + 1)

\* IdentityResolver._normalize_address
_normalize_address(address) ==
    IF ~Truthy(address) THEN <<>>
    ELSE strip(CollapseSpaces(
                   SelectSeq(ReplaceWords(strip(lower(address)), 1, <<>>),
                             LAMBDA c : c \notin {",", "."}),
                   1))

\* the score of two normalized addresses
AddressScore(addr_a, addr_b) ==
    IF addr_a = <<>> \/ addr_b = <<>> THEN 0
    ELSE 10 * jaro_winkler_similarity(addr_a, addr_b)

\* IdentityResolver._calculate_address_similarity, in 1/ScoreScale
_calculate_address_similarity(a, b) ==
    AddressScore(_normalize_address(a.address_line1), _normalize_address(b.address_line1))

\* IdentityResolver._calculate_phone_similarity, in 1/ScoreScale
_calculate_phone_similarity(a, b) ==
    IF ~Truthy(a.phone) \/ ~Truthy(b.phone) THEN 0
    ELSE IF a.phone = b.phone THEN ScoreScale
    ELSE IF Len(a.phone) >= 7 /\ Len(b.phone) >= 7 /\ Suffix(a.phone, 7) = Suffix(b.phone, 7)
         THEN 8 * SimScale
    ELSE 0

\* email.split('@')[-1] if '@' in email else ""
RECURSIVE Domain(_)
Domain(email) ==
    IF "@" \notin Chars(email) THEN <<>>
    ELSE IF "@" \in Chars(Tail(email)) THEN Domain(Tail(email))
    ELSE Tail(email)

\* IdentityResolver._calculate_email_domain_similarity, in 1/ScoreScale
_calculate_email_domain_similarity(a, b) ==
    IF ~Truthy(a.email) \/ ~Truthy(b.email) THEN 0
    ELSE IF Domain(a.email) # <<>> /\ Domain(a.email) = Domain(b.email) THEN ScoreScale
    ELSE 0

\* IdentityResolver._calculate_zip_similarity, in 1/ScoreScale
_calculate_zip_similarity(a, b) ==
    IF ~Truthy(a.zip_code) \/ ~Truthy(b.zip_code) THEN 0
    ELSE IF Prefix(a.zip_code, 5) = Prefix(b.zip_code, 5) THEN ScoreScale
    ELSE IF Prefix(a.zip_code, 3) = Prefix(b.zip_code, 3) THEN 5 * SimScale
    ELSE 0

-----------------------------------------------------------------------------
(* IdentityResolver.compare_records                                        *)

\* MatchType
DETERMINISTIC_EMAIL == "deterministic_email"
DETERMINISTIC_PHONE == "deterministic_phone"
PROBABILISTIC == "probabilistic"
MANUAL_REVIEW == "manual_review"
NO_MATCH == "no_match"

\* the five feature scores of phase 2, each in 1/ScoreScale
FeatureScores(a, b) ==
    [name_similarity    |-> _calculate_name_similarity(a, b),
     address_similarity |-> _calculate_address_similarity(a, b),
     phone_similarity   |-> _calculate_phone_similarity(a, b),
     email_domain       |-> _calculate_email_domain_similarity(a, b),
     zip_match          |-> _calculate_zip_similarity(a, b)]

\* the weighted confidence of phase 2, in 1/ConfScale
WeightedConfidence(cfg, fs) ==
    fs.name_similarity * cfg.name_weight
    + fs.address_similarity * cfg.address_weight
    + fs.phone_similarity * cfg.phone_weight
    + fs.email_domain * cfg.email_domain_weight
    + fs.zip_match * cfg.zip_weight

\* Python floats are 64-bit binary numbers of 53 significant bits. A float
\* d >= 0 is the record of d.hi * DoubleBase + d.lo, in units of 2^-58; the
\* floats below are 0 or at least 2^-6, so every one is a whole number of units
DoubleBase == 536870912

\* the float 0.0
DoubleZero == [hi |-> 0, lo |-> 0]

\* the float 1.0
DoubleOne == [hi |-> DoubleBase, lo |-> 0]

\* the float a literal of so many hundredths denotes: the nearest 64-bit float
DoubleOf(hundredths) ==
    CASE hundredths = 0   -> DoubleZero
      [] hundredths = 5   -> [hi |-> 26843545,  lo |-> 322122548]
      [] hundredths = 10  -> [hi |-> 53687091,  lo |-> 107374184]
      [] hundredths = 15  -> [hi |-> 80530636,  lo |-> 429496728]
      [] hundredths = 20  -> [hi |-> 107374182, lo |-> 214748368]
      [] hundredths = 30  -> [hi |-> 161061273, lo |-> 322122544]
      [] hundredths = 35  -> [hi |-> 187904819, lo |-> 107374176]
      [] hundredths = 95  -> [hi |-> 510027366, lo |-> 214748352]
      [] hundredths = 100 -> DoubleOne

\* x <= y of two floats
DoubleLeq(x, y) == x.hi < y.hi \/ (x.hi = y.hi /\ x.lo <= y.lo)

\* the units of the last significant bit of a float of this upper part, that
\* is of a value in [1, 2), [1/2, 1), [1/4, 1/2) and so on
DoubleUlp(hi) ==
    IF hi >= DoubleBase THEN 64
    ELSE IF hi >= DoubleBase \div 2 THEN 32
    ELSE IF hi >= DoubleBase \div 4 THEN 16
    ELSE IF hi >= DoubleBase \div 8 THEN 8
    ELSE IF hi >= DoubleBase \div 16 THEN 4
    ELSE IF hi >= DoubleBase \div 32 THEN 2
    ELSE 1

\* lo rounded to a multiple of ulp, a tie to the even multiple
RoundHalfEven(lo, ulp) ==
    IF 2 * (lo % ulp) < ulp THEN lo - (lo % ulp)
    ELSE IF 2 * (lo % ulp) > ulp THEN lo - (lo % ulp) + ulp
    ELSE IF (lo \div ulp) % 2 = 0 THEN lo - (lo % ulp)
    ELSE lo - (lo % ulp) + ulp

\* the number of units hi * DoubleBase + lo, lo < 2 * DoubleBase, as a record
DoubleCarry(hi, lo) == [hi |-> hi + lo \div DoubleBase, lo |-> lo % DoubleBase]

\* the exact number hi * DoubleBase + lo rounded to 53 significant bits
DoubleRound(exact) == DoubleCarry(exact.hi, RoundHalfEven(exact.lo, DoubleUlp(exact.hi)))

\* x + y of two floats: the exact sum, rounded
DoubleAdd(x, y) == DoubleRound(DoubleCarry(x.hi + y.hi, x.lo + y.lo))

\* the float x / 2, exact
DoubleHalf(x) == [hi |-> x.hi \div 2, lo |-> ((x.hi % 2) * DoubleBase + x.lo) \div 2]

\* score * weight of a feature score 0.0, 0.5 or 1.0 (in 1/ScoreScale) and a
\* weight: these products are exact
DoubleTimes(score, weight) ==
    CASE score = 0              -> DoubleZero
      [] 2 * score = ScoreScale -> DoubleHalf(DoubleOf(weight))
      [] score = ScoreScale     -> DoubleOf(weight)

\* the feature scores are of the values DoubleTimes takes
ExactScores(fs) ==
    \A f \in DOMAIN fs : fs[f] \in {0, ScoreScale \div 2, ScoreScale}

\* the weighted confidence of phase 2 as Python computes it: the products are
\* added from left to right, every sum rounded to a float
FloatConfidence(cfg, fs) ==
    DoubleAdd(DoubleAdd(DoubleAdd(DoubleAdd(
        DoubleTimes(fs.name_similarity, cfg.name_weight),
        DoubleTimes(fs.address_similarity, cfg.address_weight)),
        DoubleTimes(fs.phone_similarity, cfg.phone_weight)),
        DoubleTimes(fs.email_domain, cfg.email_domain_weight)),
        DoubleTimes(fs.zip_match, cfg.zip_weight))

\* a classification without the review band
ClassifyWithoutReview(cfg, confidence) ==
    IF confidence >= cfg.auto_match_threshold * ScoreScale THEN PROBABILISTIC ELSE NO_MATCH

\* the match type of a phase 2 confidence
Classify(cfg, confidence) ==
    IF confidence >= cfg.auto_match_threshold * ScoreScale THEN PROBABILISTIC
    ELSE IF confidence >= cfg.review_threshold * ScoreScale THEN MANUAL_REVIEW
    ELSE NO_MATCH

\* the match_reasons of phase 2 (the text of each reason, without the score
\* that the code formats into it)
MatchReasons(fs) ==
    (IF fs.name_similarity * 10 > 8 * ScoreScale THEN <<"Strong name match">>
     ELSE IF fs.name_similarity * 10 > 6 * ScoreScale THEN <<"Moderate name match">>
     ELSE <<>>)
    \o (IF fs.address_similarity * 10 > 8 * ScoreScale THEN <<"Strong address match">>
        ELSE IF fs.address_similarity * 10 > 6 * ScoreScale THEN <<"Moderate address match">>
        ELSE <<>>)
    \o (IF fs.phone_similarity > 0 THEN <<"Phone match">> ELSE <<>>)
    \o (IF fs.zip_match = ScoreScale THEN <<"Same zip code">> ELSE <<>>)

\* an email rule that takes generic emails too
EmailRuleWithGeneric(cfg, a, b) ==
    /\ Truthy(a.email)
    /\ Truthy(b.email)
    /\ a.email = b.email

\* the email rule of phase 1
EmailRule(cfg, a, b) ==
    /\ Truthy(a.email)
    /\ Truthy(b.email)
    /\ a.email = b.email
    /\ ~_is_generic_email(cfg, a.email)

\* a phone rule that takes short phones too
PhoneRuleAnyLength(a, b) ==
    /\ Truthy(a.phone)
    /\ Truthy(b.phone)
    /\ a.phone = b.phone

\* the phone rule of phase 1
PhoneRule(a, b) ==
    /\ Truthy(a.phone)
    /\ Truthy(b.phone)
    /\ a.phone = b.phone
    /\ Len(a.phone) >= 10

\* the MatchResult of phase 2, from the feature scores and the confidence
WeightedResult(cfg, a, b, fs, confidence) ==
    [record_a |-> a, record_b |-> b, match_type |-> Classify(cfg, confidence),
     confidence |-> confidence,
     feature_scores |-> fs,
     match_reasons |-> MatchReasons(fs)]

\* phase 2 of compare_records, from the feature scores
WeightedMatch(cfg, a, b, fs) == WeightedResult(cfg, a, b, fs, WeightedConfidence(cfg, fs))

\* IdentityResolver.compare_records: the MatchResult
compare_records(cfg, a, b) ==
    IF EmailRule(cfg, a, b)
    THEN [record_a |-> a, record_b |-> b, match_type |-> DETERMINISTIC_EMAIL,
          confidence |-> ConfScale,
          feature_scores |-> [email_exact |-> ScoreScale],
          match_reasons |-> <<"Exact email match">>]
    ELSE IF PhoneRule(a, b)
    THEN [record_a |-> a, record_b |-> b, match_type |-> DETERMINISTIC_PHONE,
          confidence |-> 95 * ScoreScale,
          feature_scores |-> [phone_exact |-> ScoreScale],
          match_reasons |-> <<"Exact phone match">>]
    ELSE WeightedMatch(cfg, a, b, FeatureScores(a, b))

-----------------------------------------------------------------------------
(* IdentityResolver: indices and match finder                              *)

\* the records of a list that have field value v, in list order
Bucket(recs, field, v) == SelectSeq(recs, LAMBDA r : r[field] = v)

\* a build_indices that indexes every email and every phone
build_indices_unfiltered(cfg, recs) ==
    [email |-> [e \in {recs[i].email : i \in {j \in 1..Len(recs) : Truthy(recs[j].email)}}
                    |-> Bucket(recs, "email", e)],
     phone |-> [p \in {recs[i].phone : i \in {j \in 1..Len(recs) : Truthy(recs[j].phone)}}
                    |-> Bucket(recs, "phone", p)]]

\* IdentityResolver.build_indices: both indices are cleared and rebuilt
build_indices(cfg, recs) ==
    LET emails == {recs[i].email : i \in {j \in 1..Len(recs) :
                       Truthy(recs[j].email) /\ ~_is_generic_email(cfg, recs[j].email)}}
        phones == {recs[i].phone : i \in {j \in 1..Len(recs) :
                       Truthy(recs[j].phone) /\ Len(recs[j].phone) >= 10}}
    IN  [email |-> [e \in emails |-> Bucket(recs, "email", e)],
         phone |-> [p \in phones |-> Bucket(recs, "phone", p)]]

\* a find_matches that keeps only the matches unify_records unions on
AfterCompareDroppingReview(st, key, result, addCompared) ==
    [matches  |-> IF result.match_type \notin {NO_MATCH, MANUAL_REVIEW}
                  THEN Append(st.matches, result)
                  ELSE st.matches,
     compared |-> IF addCompared THEN st.compared \cup {key} ELSE st.compared]

\* the locals matches and compared of find_matches after a comparison
AfterCompare(st, key, result, addCompared) ==
    [matches  |-> IF result.match_type # NO_MATCH THEN Append(st.matches, result)
                  ELSE st.matches,
     compared |-> IF addCompared THEN st.compared \cup {key} ELSE st.compared]

\* the body of a candidate loop of find_matches; st holds the locals matches and
\* compared; skipCompared says whether the loop skips the keys in compared,
\* addCompared whether it adds to compared
VisitCandidate(cfg, record, candidate, st, skipCompared, addCompared) ==
    IF /\ record_key(candidate) # record_key(record)
       /\ skipCompared => record_key(candidate) \notin st.compared
    THEN AfterCompare(st, record_key(candidate),
                      compare_records(cfg, record, candidate), addCompared)
    ELSE st

\* one candidate loop of find_matches over the list bucket, from position i
RECURSIVE ScanCandidates(_, _, _, _, _, _, _)
ScanCandidates(cfg, record, bucket, i, st, skipCompared, addCompared) ==
    IF i > Len(bucket) THEN st
    ELSE ScanCandidates(cfg, record, bucket, i + 1,
                        VisitCandidate(cfg, record, bucket[i], st, skipCompared, addCompared),
                        skipCompared, addCompared)

\* list.sort(key=confidence, reverse=True) is stable: m goes behind every result
\* of at least its confidence
RECURSIVE InsertByConfidence(_, _)
InsertByConfidence(sorted, m) ==
    IF sorted = <<>> THEN <<m>>
    ELSE IF Head(sorted).confidence >= m.confidence
         THEN <<Head(sorted)>> \o InsertByConfidence(Tail(sorted), m)
         ELSE <<m>> \o sorted

RECURSIVE SortByConfidence(_, _)
SortByConfidence(matches, sorted) ==
    IF matches = <<>> THEN sorted
    ELSE SortByConfidence(Tail(matches), InsertByConfidence(sorted, Head(matches)))

\* "Check email index for deterministic matches"
EmailIndexScan(cfg, idx, record, st) ==
    IF Truthy(record.email) /\ record.email \in DOMAIN idx.email
    THEN ScanCandidates(cfg, record, idx.email[record.email], 1, st, FALSE, TRUE)
    ELSE st

\* "Check phone index for deterministic matches"
PhoneIndexScan(cfg, idx, record, st) ==
    IF Truthy(record.phone) /\ record.phone \in DOMAIN idx.phone
    THEN ScanCandidates(cfg, record, idx.phone[record.phone], 1, st, TRUE, TRUE)
    ELSE st

\* a candidate scan that compares the keys in compared once more
CandidateScanAgain(cfg, record, candidates, st) ==
    IF candidates # <<>>
    THEN ScanCandidates(cfg, record, candidates, 1, st, FALSE, FALSE)
    ELSE st

\* "Probabilistic matching against remaining candidates"
CandidateScan(cfg, record, candidates, st) ==
    IF candidates # <<>>
    THEN ScanCandidates(cfg, record, candidates, 1, st, TRUE, FALSE)
    ELSE st

\* IdentityResolver.find_matches; the empty list stands for candidates=None too
\* (the code only tests "if candidates")
find_matches(cfg, idx, record, candidates) ==
    SortByConfidence(
        CandidateScan(cfg, record, candidates,
            PhoneIndexScan(cfg, idx, record,
                EmailIndexScan(cfg, idx, record,
                               [matches |-> <<>>, compared |-> {}]))).matches,
        <<>>)

-----------------------------------------------------------------------------
(* ConflictResolver                                                        *)

\* a most recent record that is the last, in list order, of the latest timestamp
MostRecentLastOfTies(recs) ==
    recs[CHOOSE i \in 1..Len(recs) :
             /\ \A j \in 1..Len(recs) : recs[j].updated_at <= recs[i].updated_at
             /\ \A j \in (i + 1)..Len(recs) : recs[j].updated_at < recs[i].updated_at]

\* records.sort(key=updated_at, reverse=True)[0]: the first record, in list
\* order, of the latest timestamp
MostRecent(recs) ==
    LET latest == CHOOSE t \in {recs[i].updated_at : i \in 1..Len(recs)} :
                      \A i \in 1..Len(recs) : recs[i].updated_at <= t
    IN  recs[CHOOSE i \in 1..Len(recs) :
                 /\ recs[i].updated_at = latest
                 /\ \A j \in 1..(i - 1) : recs[j].updated_at # latest]

\* the prefixes resolve_email tests
resolve_email_generic == { <<"i", "n", "f", "o", "@">>,
                           <<"a", "d", "m", "i", "n", "@">>,
                           <<"s", "u", "p", "p", "o", "r", "t", "@">> }

\* a resolve_email that takes the first email in record order
resolve_email_first_present(cfg, recs) ==
    IF SelectSeq(recs, LAMBDA r : Truthy(r.email)) = <<>> THEN None
    ELSE SelectSeq(recs, LAMBDA r : Truthy(r.email))[1].email

\* ConflictResolver.resolve_email
resolve_email(cfg, recs) ==
    LET records_with_email     == SelectSeq(recs, LAMBDA r : Truthy(r.email))
        records_with_timestamp == SelectSeq(records_with_email,
                                            LAMBDA r : r.updated_at # NoTime)
        non_generic == SelectSeq(records_with_email, LAMBDA r :
                           ~\E g \in resolve_email_generic : startswith(lower(r.email), g))
    IN  IF records_with_email = <<>> THEN None
        ELSE IF cfg.prefer_most_recent /\ records_with_timestamp # <<>>
             THEN MostRecent(records_with_timestamp).email
        ELSE IF non_generic # <<>> THEN non_generic[1].email
        ELSE records_with_email[1].email

\* the lists first_names (which = 1) and last_names (which = 2) of resolve_name
RECURSIVE NameValues(_, _)
NameValues(recs, which) ==
    IF recs = <<>> THEN <<>>
    ELSE LET r      == Head(recs)
             direct == IF which = 1 THEN r.first_name ELSE r.last_name
             parts  == IF Truthy(r.full_name) /\ ~Truthy(r.first_name)
                       THEN split(strip(r.full_name)) ELSE <<>>
         IN  (IF Truthy(direct) THEN <<direct>> ELSE <<>>)
             \o (IF Len(parts) >= 2
                 THEN <<IF which = 1 THEN parts[1] ELSE parts[Len(parts)]>> ELSE <<>>)
             \o NameValues(Tail(recs), which)

\* max(names, key=len): the first of the longest
Longest(names) ==
    names[CHOOSE i \in 1..Len(names) :
              /\ \A j \in 1..Len(names) : Len(names[j]) <= Len(names[i])
              /\ \A j \in 1..(i - 1) : Len(names[j]) < Len(names[i])]

\* a resolve_name that reads the first_name and last_name fields only
resolve_name_fields_only(recs) ==
    <<IF SelectSeq(recs, LAMBDA r : Truthy(r.first_name)) # <<>>
      THEN Longest([n \in 1..Len(SelectSeq(recs, LAMBDA r : Truthy(r.first_name))) |->
                       SelectSeq(recs, LAMBDA r : Truthy(r.first_name))[n].first_name])
      ELSE None,
      IF SelectSeq(recs, LAMBDA r : Truthy(r.last_name)) # <<>>
      THEN Longest([n \in 1..Len(SelectSeq(recs, LAMBDA r : Truthy(r.last_name))) |->
                       SelectSeq(recs, LAMBDA r : Truthy(r.last_name))[n].last_name])
      ELSE None>>

\* ConflictResolver.resolve_name: <<canonical_first, canonical_last>>
resolve_name(recs) ==
    LET first_names == NameValues(recs, 1)
        last_names  == NameValues(recs, 2)
    IN  <<IF first_names # <<>> THEN Longest(first_names) ELSE None,
          IF last_names # <<>> THEN Longest(last_names) ELSE None>>

\* ConflictResolver.resolve_phone
resolve_phone(cfg, recs) ==
    LET phones == SelectSeq(recs, LAMBDA r : Truthy(r.phone) /\ Len(r.phone) >= 10)
        records_with_phone     == SelectSeq(recs, LAMBDA r : Truthy(r.phone))
        records_with_timestamp == SelectSeq(records_with_phone,
                                            LAMBDA r : r.updated_at # NoTime)
    IN  IF phones = <<>> THEN None
        ELSE IF cfg.prefer_most_recent /\ records_with_timestamp # <<>>
             THEN MostRecent(records_with_timestamp).phone
        ELSE phones[1].phone

\* the first value of a field in record order, or None
FirstValue(values) ==
    IF SelectSeq(values, Truthy) = <<>> THEN None ELSE SelectSeq(values, Truthy)[1]

\* a resolve_address that takes each field from the first record that has it
resolve_address_per_field(cfg, recs) ==
    <<FirstValue([n \in 1..Len(recs) |-> recs[n].address_line1]),
      FirstValue([n \in 1..Len(recs) |-> recs[n].city]),
      FirstValue([n \in 1..Len(recs) |-> recs[n].state]),
      FirstValue([n \in 1..Len(recs) |-> recs[n].zip_code])>>

\* ConflictResolver.resolve_address: <<address_line1, city, state, zip_code>>
resolve_address(cfg, recs) ==
    LET records_with_address   == SelectSeq(recs, LAMBDA r : Truthy(r.address_line1))
        records_with_timestamp == SelectSeq(records_with_address,
                                            LAMBDA r : r.updated_at # NoTime)
        r == IF cfg.prefer_most_recent /\ records_with_timestamp # <<>>
             THEN MostRecent(records_with_timestamp)
             ELSE records_with_address[1]
    IN  IF records_with_address = <<>> THEN <<None, None, None, None>>
        ELSE <<r.address_line1, r.city, r.state, r.zip_code>>

-----------------------------------------------------------------------------
(* ConstituentUnifier                                                      *)

\* the keys of {r.record_key: ... for r in records}: first occurrence order
RECURSIVE KeysInOrder(_, _)
KeysInOrder(recs, seen) ==
    IF recs = <<>> THEN <<>>
    ELSE LET k == record_key(Head(recs))
         IN  IF k \in seen THEN KeysInOrder(Tail(recs), seen)
             ELSE <<k>> \o KeysInOrder(Tail(recs), seen \cup {k})

\* record_lookup = {r.record_key: r for r in records}: the last record of a key
record_lookup(recs) ==
    [k \in {record_key(recs[i]) : i \in 1..Len(recs)} |->
        recs[CHOOSE i \in 1..Len(recs) :
                 /\ record_key(recs[i]) = k
                 /\ \A j \in (i + 1)..Len(recs) : record_key(recs[j]) # k]]

\* "if matches: all_matches[record.record_key] = matches"; the dict all_matches
\* is its keys in insertion order and its values
StoreMatches(all, key, matches) ==
    IF matches # <<>>
    THEN [keys |-> IF key \in DOMAIN all.val THEN all.keys ELSE Append(all.keys, key),
          val  |-> (key :> matches) @@ all.val]
    ELSE all

\* candidates that are the input list in every mode
CandidatesAlways(recs, enable) == recs

\* "candidates = records if enable_probabilistic else None"; find_matches
\* takes None and the empty list alike
Candidates(recs, enable) == IF enable THEN recs ELSE <<>>

\* a phase 1 that compares a record with the records after it only
RECURSIVE FindLaterMatches(_, _, _, _, _, _)
FindLaterMatches(cfg, idx, recs, enable, i, all) ==
    IF i > Len(recs) THEN all
    ELSE FindLaterMatches(cfg, idx, recs, enable, i + 1,
             StoreMatches(all, record_key(recs[i]),
                          find_matches(cfg, idx, recs[i],
                                       IF enable THEN SubSeq(recs, i + 1, Len(recs)) ELSE <<>>)))

\* phase 1 of unify_records: the dict all_matches, from record i on
RECURSIVE FindAllMatches(_, _, _, _, _, _)
FindAllMatches(cfg, idx, recs, enable, i, all) ==
    IF i > Len(recs) THEN all
    ELSE FindAllMatches(cfg, idx, recs, enable, i + 1,
             StoreMatches(all, record_key(recs[i]),
                          find_matches(cfg, idx, recs[i], Candidates(recs, enable))))

\* the root find(x) returns
RECURSIVE Root(_, _)
Root(parent, x) == IF parent[x] # x THEN Root(parent, parent[x]) ELSE x

\* the keys whose parent pointer find(x) rewrites (path compression)
RECURSIVE Compressed(_, _)
Compressed(parent, x) ==
    IF parent[x] # x THEN {x} \cup Compressed(parent, parent[x]) ELSE {}

\* find(x) of unify_records: the root, and parent after the call
find(parent, x) ==
    [root   |-> Root(parent, x),
     parent |-> [k \in DOMAIN parent |->
                    IF k \in Compressed(parent, x) THEN Root(parent, x) ELSE parent[k]]]

\* a union that never links
LinkNothing(parent, px, py) == parent

\* "if px != py: parent[px] = py"
Link(parent, px, py) == IF px # py THEN [parent EXCEPT ![px] = py] ELSE parent

\* union(x, y) of unify_records: parent after the call; the path compression of
\* find(x) leaves the root of y as it is
union(parent, x, y) ==
    Link(find(find(parent, x).parent, y).parent, find(parent, x).root, find(parent, y).root)

\* a union on every match that find_matches returns
UnionEligibleWithReview ==
    {DETERMINISTIC_EMAIL, DETERMINISTIC_PHONE, PROBABILISTIC, MANUAL_REVIEW}

\* the match types unify_records unions on
UnionEligible == {DETERMINISTIC_EMAIL, DETERMINISTIC_PHONE, PROBABILISTIC}

\* a pass that unions the records of every match
UnionEveryMatch(parent, match) ==
    union(parent, record_key(match.record_a), record_key(match.record_b))

\* one pass of the inner loop of phase 2: parent after the match
UnionMatch(parent, match) ==
    IF match.match_type \in UnionEligible
    THEN union(parent, record_key(match.record_a), record_key(match.record_b))
    ELSE parent

\* the inner loop of phase 2 over one list of matches; parent is computed
\* after every pass, as the loop does
RECURSIVE UnionMatches(_, _)
UnionMatches(parent, matches) ==
    IF matches = <<>> THEN parent
    ELSE CHOOSE after \in {UnionMatches(p, Tail(matches)) :
                               p \in {UnionMatch(parent, Head(matches))}} : TRUE

\* the outer loop of phase 2 over all_matches.items(), from entry i on
RECURSIVE UnionAll(_, _, _)
UnionAll(parent, all, i) ==
    IF i > Len(all.keys) THEN parent
    ELSE CHOOSE after \in {UnionAll(p, all, i + 1) :
                               p \in {UnionMatches(parent, all.val[all.keys[i]])}} : TRUE

\* the roots of the keys, in order of first occurrence (the keys of clusters)
RECURSIVE RootsInOrder(_, _, _)
RootsInOrder(parent, keys, seen) ==
    IF keys = <<>> THEN <<>>
    ELSE LET root == Root(parent, Head(keys))
         IN  IF root \in seen THEN RootsInOrder(parent, Tail(keys), seen)
             ELSE <<root>> \o RootsInOrder(parent, Tail(keys), seen \cup {root})

\* clusters listed once per key instead of once per root
BuildClustersPerKey(parent, keys) ==
    [c \in 1..Len(keys) |-> SelectSeq(keys, LAMBDA k : Root(parent, k) = Root(parent, keys[c]))]

\* "Build clusters": the lists of record keys, one per root
BuildClusters(parent, keys) ==
    [c \in 1..Len(RootsInOrder(parent, keys, {})) |->
        SelectSeq(keys, LAMBDA k : Root(parent, k) = RootsInOrder(parent, keys, {})[c])]

\* cluster_matches: all_matches[key] of every key of the cluster, concatenated
RECURSIVE ClusterMatches(_, _)
ClusterMatches(all, cluster_keys) ==
    IF cluster_keys = <<>> THEN <<>>
    ELSE (IF Head(cluster_keys) \in DOMAIN all.val THEN all.val[Head(cluster_keys)] ELSE <<>>)
         \o ClusterMatches(all, Tail(cluster_keys))

\* tuple(sorted([record_a.record_key, record_b.record_key]))
Pair(match) == {record_key(match.record_a), record_key(match.record_b)}

\* a phase 3 that keeps every result gathered for the cluster
KeepEveryMatch(cluster_matches, seen_pairs) == cluster_matches

\* "Deduplicate match results": the first result of every pair
RECURSIVE UniqueMatches(_, _)
UniqueMatches(cluster_matches, seen_pairs) ==
    IF cluster_matches = <<>> THEN <<>>
    ELSE LET match == Head(cluster_matches)
         IN  IF Pair(match) \notin seen_pairs
             THEN <<match>> \o UniqueMatches(Tail(cluster_matches),
                                             seen_pairs \cup {Pair(match)})
             ELSE UniqueMatches(Tail(cluster_matches), seen_pairs)

\* ConstituentUnifier._generate_constituent_id: uuid4().hex[:12] is a random
\* draw, so the id is one drawn before or a new one; the ids are numbered in
\* the order of their first draw
_generate_constituent_id(drawn) == drawn \cup {Cardinality(drawn) + 1}

\* the ids k successive calls of _generate_constituent_id can return
IdDraws(k, drawn) ==
    {ids \in [1..k -> 1..(Cardinality(drawn) + k)] :
        \A i \in 1..k :
            ids[i] \in _generate_constituent_id(drawn \cup {ids[j] : j \in 1..(i - 1)})}

\* UnifiedConstituent(...) as _create_unified_constituent fills it; name is
\* <<first, last>>, addr is <<line1, city, state, zip>>
UnifiedConstituent(constituent_id, email, name, phone_, addr, recs, match_results) ==
    [constituent_id          |-> constituent_id,
     canonical_email         |-> email,
     canonical_first_name    |-> name[1],
     canonical_last_name     |-> name[2],
     canonical_phone         |-> phone_,
     canonical_address_line1 |-> addr[1],
     canonical_city          |-> addr[2],
     canonical_state         |-> addr[3],
     canonical_zip           |-> addr[4],
     source_records          |-> recs,
     match_history           |-> match_results]

\* ConstituentUnifier._create_unified_constituent, with the id it generated
_create_unified_constituent(cfg, constituent_id, recs, match_results) ==
    UnifiedConstituent(constituent_id, resolve_email(cfg, recs), resolve_name(recs),
                       resolve_phone(cfg, recs), resolve_address(cfg, recs),
                       recs, match_results)

\* per cluster, "cluster_records" and "unique_matches" of phase 3
ClusterContents(recs, all, clusters) ==
    [c \in 1..Len(clusters) |->
        [records |-> [n \in 1..Len(clusters[c]) |-> record_lookup(recs)[clusters[c][n]]],
         matches |-> UniqueMatches(ClusterMatches(all, clusters[c]), {})]]

\* phase 2 of unify_records, from all_matches: the clusters and their
\* contents; parent is computed once, before the clusters are built
ClusterRecords(recs, all) ==
    CHOOSE contents \in
        {ClusterContents(recs, all, BuildClusters(parent, KeysInOrder(recs, {}))) :
            parent \in {UnionAll([k \in DOMAIN record_lookup(recs) |-> k], all, 1)}} : TRUE

\* phases 1 and 2 of unify_records; all_matches is computed once, before phase 2
FormClusters(cfg, recs, enable) ==
    CHOOSE contents \in
        {ClusterRecords(recs, all) :
            all \in {FindAllMatches(cfg, build_indices(cfg, recs), recs, enable, 1,
                                    [keys |-> <<>>, val |-> <<>>])}} : TRUE

\* phase 3 of unify_records: the list it returns when the calls of
\* _generate_constituent_id return ids[1], ids[2], ...
CreateConstituents(cfg, clusters, ids) ==
    [c \in 1..Len(clusters) |->
        _create_unified_constituent(cfg, ids[c], clusters[c].records, clusters[c].matches)]

\* self.unified_constituents after the loop of phase 3: the last constituent of an id
TrackConstituents(map, unified_list) ==
    LET new_ids == {unified_list[c].constituent_id : c \in 1..Len(unified_list)}
    IN  [id \in DOMAIN map \cup new_ids |->
            IF id \in new_ids
            THEN unified_list[CHOOSE c \in 1..Len(unified_list) :
                     /\ unified_list[c].constituent_id = id
                     /\ \A d \in (c + 1)..Len(unified_list) :
                            unified_list[d].constituent_id # id]
            ELSE map[id]]

\* self.record_to_constituent after the loop of phase 3
TrackRecords(map, unified_list) ==
    LET keyOf(c) == {record_key(unified_list[c].source_records[n]) :
                        n \in 1..Len(unified_list[c].source_records)}
        new_keys == UNION {keyOf(c) : c \in 1..Len(unified_list)}
    IN  [k \in DOMAIN map \cup new_keys |->
            IF k \in new_keys
            THEN unified_list[CHOOSE c \in 1..Len(unified_list) :
                     /\ k \in keyOf(c)
                     /\ \A d \in (c + 1)..Len(unified_list) : k \notin keyOf(d)].constituent_id
            ELSE map[k]]

\* list(self.unified_constituents.values()): the ids are numbered in the order
\* of their first draw, which is the insertion order of the dict
Values(map) == [n \in 1..Cardinality(DOMAIN map) |-> map[n]]

\* sum(len(c.source_records) for c in constituents)
RECURSIVE SumRecords(_)
SumRecords(constituents) ==
    IF constituents = <<>> THEN 0
    ELSE Len(Head(constituents).source_records) + SumRecords(Tail(constituents))

\* record_count_dist of get_match_statistics
RecordCountDist(constituents) ==
    [count \in {Len(constituents[n].source_records) : n \in 1..Len(constituents)} |->
        Cardinality({n \in 1..Len(constituents) :
                        Len(constituents[n].source_records) = count})]

\* set(r.source_system for r in c.source_records)
Sources(c) == {c.source_records[n].source_system : n \in 1..Len(c.source_records)}

\* source_combos of get_match_statistics, keyed by the combination (str() of the
\* sorted tuple of a combination is one-to-one)
SourceCombos(constituents) ==
    [sources \in {Sources(constituents[n]) : n \in 1..Len(constituents)} |->
        Cardinality({n \in 1..Len(constituents) : Sources(constituents[n]) = sources})]

\* the number of results of kind mt in the match_history of the constituents
RECURSIVE CountKind(_, _)
CountKind(constituents, mt) ==
    IF constituents = <<>> THEN 0
    ELSE Len(SelectSeq(Head(constituents).match_history, LAMBDA m : m.match_type = mt))
         + CountKind(Tail(constituents), mt)

\* match_types of get_match_statistics
MatchTypes(constituents) ==
    [mt \in {kind \in {DETERMINISTIC_EMAIL, DETERMINISTIC_PHONE, PROBABILISTIC,
                       MANUAL_REVIEW, NO_MATCH} : CountKind(constituents, kind) > 0} |->
        CountKind(constituents, mt)]

\* a / b of Python on ints, in 1/SimScale
TrueDiv(a, b) ==
    IF b = 0 THEN [call |-> "raised", error |-> "ZeroDivisionError"]
    ELSE [call |-> "returned", value |-> (a * SimScale) \div b]

\* the dict get_match_statistics returns for a list of constituents, or the
\* exception of the division
StatisticsOf(constituents) ==
    IF TrueDiv(SumRecords(constituents), Len(constituents)).call = "raised"
    THEN TrueDiv(SumRecords(constituents), Len(constituents))
    ELSE [call |-> "returned",
          keys |-> {"total_constituents", "total_source_records",
                    "avg_records_per_constituent", "record_count_distribution",
                    "source_system_combinations", "match_type_distribution"},
          total_constituents          |-> Len(constituents),
          total_source_records        |-> SumRecords(constituents),
          avg_records_per_constituent |->
              TrueDiv(SumRecords(constituents), Len(constituents)).value,
          record_count_distribution   |-> RecordCountDist(constituents),
          source_system_combinations  |-> SourceCombos(constituents),
          match_type_distribution     |-> MatchTypes(constituents)]

\* a get_match_statistics without the test of the empty dict
get_match_statistics_unguarded(map) == StatisticsOf(Values(map))

\* ConstituentUnifier.get_match_statistics
get_match_statistics(map) ==
    IF DOMAIN map = {} THEN [call |-> "returned", keys |-> {}]
    ELSE StatisticsOf(Values(map))

-----------------------------------------------------------------------------
(* BaseConnector (src/src/integrations/base_connector.py)                  *)

\* ConnectorConfig(max_retries, retry_delay_seconds): the two fields that
\* extract_with_retry reads; the delay is a whole number of seconds
ConnectorConfig(max_retries, retry_delay_seconds) ==
    [max_retries |-> max_retries, retry_delay_seconds |-> retry_delay_seconds]

\* ConnectorConfig with the defaults of the two fields
DefaultConnectorConfig == ConnectorConfig(3, 1)

\* self._metrics as __init__ sets it; the clock of the model moves while the
\* call sleeps only, so the elapsed time of a call is what it slept
NewMetrics ==
    [extracts_attempted            |-> 0,
     extracts_succeeded            |-> 0,
     extracts_failed               |-> 0,
     total_records_extracted       |-> 0,
     total_extraction_time_seconds |-> 0]

\* no call of extract_with_retry has ended yet
NoExtractResult == [call |-> "none"]

\* ExtractResult(record_count, success, error_message) as extract_with_retry
\* returns it
ExtractResult(record_count, success, error_message) ==
    [call          |-> "returned",
     record_count  |-> record_count,
     success       |-> success,
     error_message |-> error_message]

\* the exception that left extract_with_retry
Raised(exception) == [call |-> "raised", exception |-> exception]

\* str(e) of the exception that connect or extract raised in attempt k
ErrorOf(where, k) == <<where, ToString(k)>>

\* the sum of the delays slept
RECURSIVE SumOf(_)
SumOf(delays) == IF delays = <<>> THEN 0 ELSE Head(delays) + SumOf(Tail(delays))

\* "if attempt < self.config.max_retries - 1": the handler sleeps
SleepsAfter(k, max_retries) == k < max_retries - 1

\* "delay = self.config.retry_delay_seconds * (2 ** attempt)"
DelayOf(retry_delay_seconds, k) == retry_delay_seconds * 2 ^ k

-----------------------------------------------------------------------------
(* Inputs                                                                  *)
(*                                                                         *)
(* The code adds binary floating-point numbers; the sum differs from the   *)
(* exact weighted sum by far less than two sums of the model differ, so    *)
(* the code and the exact fractions classify a pair alike unless the exact *)
(* sum is equal to a threshold.  There the binary sum can fall below the   *)
(* threshold (0.35 + 0.30 + 0.10 + 0.10 is 0.8499999999999999), so the     *)
(* inputs leave those pairs out: no two records of Pool with different     *)
(* keys are such a pair, and InitCompare takes no such pair.               *)

\* the raw field values handed to SourceRecord(...)
RawRecord(source_system, source_id, email, phone_, first_name, last_name, full_name, address_line1, city, state, zip_code, updated_at) ==
    [source_system |-> source_system, source_id |-> source_id, email |-> email,
     phone |-> phone_, first_name |-> first_name, last_name |-> last_name,
     full_name |-> full_name, address_line1 |-> address_line1, city |-> city,
     state |-> state, zip_code |-> zip_code, updated_at |-> updated_at]

JohnD1 ==
  SourceRecord(
    RawRecord(<<"w", "b", "e", "z">>, <<"D", "1">>,
              <<"J", "@", "x", ".", "c", "o", " ">>,
              <<"3", "1", "2", "-", "5", "5", "5", "-", "1", "2", "3", "4">>,
              <<"J", "o", "h", "n">>, <<"S", "m", "i", "t", "h">>, None,
              <<"1", " ", "M", "a", "i", "n", " ", "S", "t", "r", "e", "e", "t">>,
              <<"C", "h", "i", "c", "a", "g", "o">>, <<"I", "L">>,
              <<"6", "0", "6", "0", "1", "-", "1", "2", "3", "4">>, 1))

JohnS1 ==
  SourceRecord(
    RawRecord(<<"s", "u", "n">>, <<"S", "1">>, <<"j", "m", "@", "y", ".", "c", "o">>,
              <<"1", " ", "(", "3", "1", "2", ")", " ", "5", "5", "5", "-", "1", "2", "3", "4">>,
              None, None,
              <<"J", "o", "h", "n", " ", "M", " ", "S", "m", "i", "t", "h">>,
              <<"1", " ", "M", "a", "i", "n", " ", "S", "t", ".">>,
              <<"C", "h", "i", "c", "a", "g", "o">>, <<"I", "L">>,
              <<"6", "0", "6", "0", "1">>, 2))

JSmithE1 ==
  SourceRecord(
    RawRecord(<<"e", "v", "t">>, <<"E", "1">>, <<"j", "@", "x", ".", "c", "o">>, None,
              None, None, <<"J", ".", " ", "S", "m", "i", "t", "h">>, None, None, None,
              None, 3))

AnnLeeD2 ==
  SourceRecord(
    RawRecord(<<"w", "b", "e", "z">>, <<"D", "2">>, None,
              <<"7", "7", "3", "5", "5", "5", "0", "0", "0", "0">>, <<"A", "n", "n">>,
              <<"L", "e", "e">>, None, <<"9", " ", "O", "a", "k", " ", "A", "v", "e">>,
              <<"E", "v", "a", "n", "s", "t", "o", "n">>, <<"I", "L">>,
              <<"6", "0", "2", "0", "1">>, NoTime))

AnnLeS2 ==
  SourceRecord(
    RawRecord(<<"s", "u", "n">>, <<"S", "2">>, None,
              <<"3", "1", "2", "5", "5", "5", "0", "0", "0", "0">>, <<"A", "n", "n">>,
              <<"L", "e">>, None,
              <<"9", " ", "O", "a", "k", " ", "A", "v", "e", "n", "u", "e">>,
              <<"E", "v", "a", "n", "s", "t", "o", "n">>, <<"I", "L">>,
              <<"6", "0", "2", "0", "1">>, NoTime))

JohnE2 ==
  SourceRecord(
    RawRecord(<<"e", "v", "t">>, <<"E", "2">>, None, None, <<"J", "o", "h", "n">>,
              <<"S", "m", "i", "t", "h">>, None,
              <<"1", " ", "M", "a", "i", "n", " ", "S", "t">>,
              <<"C", "h", "i", "c", "a", "g", "o">>, <<"I", "L">>,
              <<"6", "0", "6", "0", "1">>, NoTime))

MaryD1 ==
  SourceRecord(
    RawRecord(<<"w", "b", "e", "z">>, <<"D", "1">>,
              <<"i", "n", "f", "o", "@", "x", ".", "c", "o">>, None,
              <<"M", "a", "r", "y">>, <<"J", "o", "n", "e", "s">>, None,
              <<"4", "5", "6", " ", "O", "a", "k", " ", "A", "v", "e", "n", "u", "e">>,
              <<"E", "v", "a", "n", "s", "t", "o", "n">>, <<"I", "L">>,
              <<"6", "0", "2", "0", "1">>, 2))

BobE3 ==
  SourceRecord(
    RawRecord(<<"e", "v", "t">>, <<"E", "3">>,
              <<"i", "n", "f", "o", "@", "x", ".", "c", "o">>,
              <<"5", "5", "5", "1", "2", "3", "4">>, None, None, <<"B", "o", "b">>,
              None, None, None, None, NoTime))


\* the records a caller hands to unify_records
Pool == {JohnD1, JohnS1, JSmithE1, AnnLeeD2, AnnLeS2, JohnE2, MaryD1, BobE3}

\* MatchConfig(name_weight=-0.35): a policy with a negative feature weight
NegativeWeightConfig == [MatchConfig EXCEPT !.name_weight = -35]

\* the policies a caller constructs
Configs == {MatchConfig, NegativeWeightConfig}

\* the field values of the records handed to compare_records
CompareEmails ==
    { None,
      <<"J", "@", "x", ".", "c", "o", " ">>,
      <<"j", "m", "@", "x", ".", "c", "o">>,
      <<"i", "n", "f", "o", "@", "x", ".", "c", "o">> }

ComparePhones ==
    { None,
      <<"3", "1", "2", "-", "5", "5", "5", "-", "1", "2", "3", "4">>,
      <<"7", "7", "3", "5", "5", "5", "1", "2", "3", "4">>,
      <<"5", "5", "5", "1", "2", "3", "4">> }

\* <<first_name, last_name, full_name>>
CompareNames ==
    { <<None, None, None>>,
      <<<<"J", "o", "h", "n">>, <<"S", "m", "i", "t", "h">>, None>>,
      <<None, None, <<"J", ".", " ", "S", "m", "i", "t", "h">>>> }

\* <<address_line1, zip_code>>
CompareAddresses ==
    { <<None, None>>,
      <<<<"1", " ", "M", "a", "i", "n", " ", "S", "t", "r", "e", "e", "t">>,
         <<"6", "0", "6", "0", "1", "-", "1", "2", "3", "4">>>>,
      <<<<"1", " ", "M", "a", "i", "n", " ", "S", "t">>,
         <<"6", "0", "6", "1", "4">>>> }

CompareUniverse(source_system) ==
    {SourceRecord(RawRecord(source_system, <<"1">>, e, p, n[1], n[2], n[3],
                            a[1], None, None, a[2], NoTime)) :
        e \in CompareEmails, p \in ComparePhones, n \in CompareNames, a \in CompareAddresses}

\* the exact weighted sum of the pair is equal to a threshold of the policy
OnThreshold(cfg, a, b) ==
    /\ ~EmailRule(cfg, a, b)
    /\ ~PhoneRule(a, b)
    /\ WeightedConfidence(cfg, FeatureScores(a, b))
           \in {cfg.auto_match_threshold * ScoreScale, cfg.review_threshold * ScoreScale}

\* the characters typed into a phone field
PhoneAlphabet == {"1", "2", "-"}

\* the longest input list
MaxRecords == 3

\* the longest phone string
MaxPhoneLen == 12

\* the most characters of a phone string that are not digits
MaxSeparators == 1

-----------------------------------------------------------------------------
(* The unifier: construction, the caller's records, one unify_records run  *)

NotBuilt == [built |-> FALSE]

NoResult == [match_type |-> "none"]

NoStatistics == [call |-> "none"]

NotResolved == [call |-> "none"]

Init ==
    /\ pc = "new"
    /\ config = NotBuilt
    /\ records = <<>>
    /\ email_index = <<>>
    /\ phone_index = <<>>
    /\ unified_constituents = <<>>
    /\ record_to_constituent = <<>>
    /\ returned = <<>>
    /\ enable_probabilistic = TRUE
    /\ record_a = None
    /\ record_b = None
    /\ match_result = NoResult
    /\ phone = <<>>
    /\ normalized = <<>>
    /\ statistics = NoStatistics
    /\ cluster = <<>>
    /\ canonical = NotResolved
    /\ query = None
    /\ candidate_list = <<>>
    /\ found = <<>>
    /\ index_builds = 0
    /\ string_a = <<>>
    /\ string_b = <<>>
    /\ similarity = 0
    /\ permuted = <<>>
    /\ partition_permuted = {}
    /\ float_confidence = DoubleZero
    /\ runs = <<>>
    /\ connector_config = DefaultConnectorConfig
    /\ is_connected = FALSE
    /\ _metrics = NewMetrics
    /\ calls = 0
    /\ attempt = 0
    /\ tries = 0
    /\ last_error = None
    /\ slept = <<>>
    /\ extract_result = NoExtractResult

\* ConstituentUnifier(cfg): __init__ stores the policy as it is given
ConstituentUnifier(cfg) ==
    /\ pc = "new"
    /\ config' = cfg
    /\ email_index' = <<>>
    /\ phone_index' = <<>>
    /\ unified_constituents' = <<>>
    /\ record_to_constituent' = <<>>
    /\ pc' = "built"
    /\ UNCHANGED <<records, returned, enable_probabilistic, compareVars, phoneVars,
                   statsVars, resolveVars, findVars, similarityVars,
                   orderVars, floatVars, runsVars, connectorVars>>

\* the caller appends a SourceRecord to the list it will unify
AppendRecord(r) ==
    /\ pc = "built"
    /\ Len(records) < MaxRecords
    /\ records' = Append(records, r)
    /\ UNCHANGED <<config, email_index, phone_index, unified_constituents,
                   record_to_constituent, returned, enable_probabilistic, pc,
                   compareVars, phoneVars, statsVars, resolveVars,
                   findVars, similarityVars, orderVars, floatVars,
                   runsVars, connectorVars>>

\* unifier.unify_records(records, enable)
UnifyRecords(enable) ==
    /\ pc = "built"
    /\ \E idx \in {build_indices(config, records)} :
           /\ email_index' = idx.email
           /\ phone_index' = idx.phone
    /\ \E clusters \in {FormClusters(config, records, enable)} :
       \E ids \in IdDraws(Len(clusters), DOMAIN unified_constituents) :
       \E unified_list \in {CreateConstituents(config, clusters, ids)} :
           /\ returned' = unified_list
           /\ unified_constituents' = TrackConstituents(unified_constituents, unified_list)
           /\ record_to_constituent' = TrackRecords(record_to_constituent, unified_list)
    /\ enable_probabilistic' = enable
    /\ pc' = "done"
    /\ UNCHANGED <<config, records, compareVars, phoneVars, statsVars, resolveVars,
                   findVars, similarityVars, orderVars, floatVars,
                   runsVars, connectorVars>>

\* unifier.get_match_statistics(), on a new unifier or after unify_records
GetMatchStatistics ==
    /\ pc \in {"built", "done"}
    /\ statistics' = get_match_statistics(unified_constituents)
    /\ pc' = "stats"
    /\ UNCHANGED <<unifierVars, compareVars, phoneVars, resolveVars, findVars,
                   similarityVars, orderVars, floatVars, runsVars,
                   connectorVars>>

Next ==
    \/ \E cfg \in Configs : ConstituentUnifier(cfg)
    \/ \E r \in Pool : AppendRecord(r)
    \/ \E enable \in BOOLEAN : UnifyRecords(enable)
    \/ GetMatchStatistics

Spec == Init /\ [][Next]_vars

-----------------------------------------------------------------------------
(* Properties of unify_records                                             *)

\* the input list has pairwise distinct record keys
DistinctKeys ==
    \A i, j \in 1..Len(records) : i # j => record_key(records[i]) # record_key(records[j])

\* the positions of the returned constituents whose source_records hold r
Holders(r) ==
    {c \in 1..Len(returned) :
        \E n \in 1..Len(returned[c].source_records) : returned[c].source_records[n] = r}

\* compare_records of every ordered pair of input records under every policy
Compared ==
    [cfg \in Configs |-> [a \in Pool |-> [b \in Pool |-> compare_records(cfg, a, b)]]]

\* the kind compare_records gives the ordered pair under the policy in use
Kind(a, b) == Compared[config][a][b].match_type

\* the input records at positions i and j compare as a union-eligible kind in
\* one of the two directions
Linked(i, j) ==
    \/ Kind(records[i], records[j]) \in {DETERMINISTIC_EMAIL, DETERMINISTIC_PHONE, PROBABILISTIC}
    \/ Kind(records[j], records[i]) \in {DETERMINISTIC_EMAIL, DETERMINISTIC_PHONE, PROBABILISTIC}

\* the positions S and the positions one union-eligible result away from S
Grow(S) == S \cup {j \in 1..Len(records) : \E i \in S : i # j /\ Linked(i, j)}

\* the positions connected to S by chains of union-eligible results
RECURSIVE Reach(_)
Reach(S) == IF Grow(S) = S THEN S ELSE Reach(Grow(S))

\* the match_history of constituent c holds the result m
InHistory(c, m) ==
    \E n \in 1..Len(returned[c].match_history) :
        /\ returned[c].match_history[n].record_a = m.record_a
        /\ returned[c].match_history[n].record_b = m.record_b
        /\ returned[c].match_history[n].match_type = m.match_type
        /\ returned[c].match_history[n].confidence = m.confidence

\* the match_history of constituent c holds a manual-review result of the
\* records a and b, in either order
ReviewInHistory(c, a, b) ==
    \E n \in 1..Len(returned[c].match_history) :
        /\ returned[c].match_history[n].match_type = MANUAL_REVIEW
        /\ {returned[c].match_history[n].record_a, returned[c].match_history[n].record_b}
               = {a, b}

\* the records at positions i and j are linked by a manual-review result only,
\* and unify_records left them in separate constituents
ReviewOnly(i, j) ==
    /\ i # j
    /\ \/ Kind(records[i], records[j]) = MANUAL_REVIEW
       \/ Kind(records[j], records[i]) = MANUAL_REVIEW
    /\ ~Linked(i, j)
    /\ Holders(records[i]) \cap Holders(records[j]) = {}

\* C1: for an input list with pairwise distinct record keys and either value
\* of enable_probabilistic, the constituents unify_records returns partition
\* the input: every input record is in the source_records of exactly one
\* constituent, once, and every source record is an input record
C1_Partition ==
    (pc = "done" /\ DistinctKeys) =>
        /\ \A i \in 1..Len(records) : Cardinality(Holders(records[i])) = 1
        /\ \A c \in 1..Len(returned) :
           \A n \in 1..Len(returned[c].source_records) :
               /\ \E i \in 1..Len(records) : records[i] = returned[c].source_records[n]
               /\ \A m \in 1..Len(returned[c].source_records) :
                      m # n => returned[c].source_records[m] # returned[c].source_records[n]

\* a run on three records of distinct keys that merges two and leaves one alone
C1_Witness ==
    /\ pc = "done"
    /\ DistinctKeys
    /\ Len(records) = 3
    /\ Len(returned) = 2
    /\ \E c \in 1..2 : Len(returned[c].source_records) = 2

\* C2: with probabilistic matching enabled, records connected by a chain of
\* union-eligible results (deterministic-email, deterministic-phone,
\* probabilistic) are in one constituent, also when the ends of the chain
\* compare as no-match
C2_TransitiveClosure ==
    (pc = "done" /\ enable_probabilistic /\ DistinctKeys) =>
        \A i \in 1..Len(records) : \A j \in Reach({i}) :
            /\ Holders(records[i]) = Holders(records[j])
            /\ Holders(records[i]) # {}

\* A, B, C with compare(A,B) and compare(B,C) union-eligible and compare(A,C)
\* no-match in both directions, returned as one constituent of three records
C2_Witness ==
    /\ pc = "done"
    /\ enable_probabilistic
    /\ DistinctKeys
    /\ Len(records) = 3
    /\ \E i, j, k \in 1..3 :
           /\ Linked(i, j)
           /\ Linked(j, k)
           /\ Kind(records[i], records[k]) = NO_MATCH
           /\ Kind(records[k], records[i]) = NO_MATCH
    /\ Len(returned) = 1
    /\ Len(returned[1].source_records) = 3

\* C3: two records of which the comparison yields manual-review, and that no
\* chain of union-eligible results connects, are in different constituents
\* after unify_records
C3_ReviewNeverMerges ==
    (pc = "done" /\ DistinctKeys) =>
        \A i, j \in 1..Len(records) :
            (Kind(records[i], records[j]) = MANUAL_REVIEW /\ j \notin Reach({i}))
                => Holders(records[i]) \cap Holders(records[j]) = {}

\* a run with probabilistic matching that compared a pair as manual-review and
\* returned the two records in two constituents
C3_Witness ==
    /\ pc = "done"
    /\ enable_probabilistic
    /\ DistinctKeys
    /\ \E i, j \in 1..Len(records) :
           /\ Kind(records[i], records[j]) = MANUAL_REVIEW
           /\ j \notin Reach({i})
           /\ Holders(records[i]) # {}
           /\ Holders(records[j]) # {}
           /\ Holders(records[i]) # Holders(records[j])

C9_CollisionFailsFast ==
    pc = "done" =>
        \A i, j \in 1..Len(records) :
            records[i] # records[j] => record_key(records[i]) # record_key(records[j])

\* C10: a policy with a negative weight does not get past construction, and
\* no unify_records runs under it
C10_NegativeWeightRejected ==
    pc \in {"built", "done"} =>
        /\ config.name_weight >= 0
        /\ config.address_weight >= 0
        /\ config.phone_weight >= 0
        /\ config.email_domain_weight >= 0
        /\ config.zip_weight >= 0

\* C11: unify_records([]) returns an empty list, and get_match_statistics with
\* zero constituents returns (an empty dict) without raising
C11_EmptyInput ==
    /\ (pc \in {"done", "stats"} /\ records = <<>>) =>
           /\ returned = <<>>
           /\ DOMAIN unified_constituents = {}
    /\ (pc = "stats" /\ DOMAIN unified_constituents = {}) =>
           /\ statistics.call = "returned"
           /\ statistics.keys = {}

\* get_match_statistics has returned after unify_records ran on the empty list
\* (with probabilistic matching disabled)
C11_Witness ==
    /\ pc = "stats"
    /\ records = <<>>
    /\ ~enable_probabilistic
    /\ returned = <<>>
    /\ statistics.call = "returned"

\* the ids of the returned constituents are pairwise distinct
DistinctIds ==
    \A c, d \in 1..Len(returned) :
        c # d => returned[c].constituent_id # returned[d].constituent_id

\* the input record at position i has no union-eligible result with any other
\* input record
Alone(i) == \A j \in 1..Len(records) : j # i => ~Linked(i, j)

\* the constituent at position c holds the record r alone and its canonical
\* fields are the fields of r
EqualsRecord(c, r) ==
    /\ returned[c].source_records = <<r>>
    /\ returned[c].canonical_email = r.email
    /\ returned[c].canonical_first_name = r.first_name
    /\ returned[c].canonical_last_name = r.last_name
    /\ returned[c].canonical_phone = r.phone
    /\ returned[c].canonical_address_line1 = r.address_line1
    /\ returned[c].canonical_city = r.city
    /\ returned[c].canonical_state = r.state
    /\ returned[c].canonical_zip = r.zip_code

NameParts(r) ==
    IF Truthy(r.full_name) /\ ~Truthy(r.first_name) THEN split(strip(r.full_name)) ELSE <<>>

\* the first name of a record on its own: the field, else the first word of a
\* full name of two words or more
OwnFirstName(r) ==
    IF Truthy(r.first_name) THEN r.first_name
    ELSE IF Len(NameParts(r)) >= 2 THEN NameParts(r)[1]
    ELSE None

\* the last name of a record on its own: the longer of the field and the last
\* word of a full name of two words or more (the field on equal lengths)
OwnLastName(r) ==
    IF Truthy(r.last_name) /\ Len(NameParts(r)) >= 2
    THEN IF Len(NameParts(r)[Len(NameParts(r))]) > Len(r.last_name)
         THEN NameParts(r)[Len(NameParts(r))] ELSE r.last_name
    ELSE IF Truthy(r.last_name) THEN r.last_name
    ELSE IF Len(NameParts(r)) >= 2 THEN NameParts(r)[Len(NameParts(r))]
    ELSE None

\* a field, or None for an empty one
OrNone(field) == IF Truthy(field) THEN field ELSE None

SingletonShortPhone ==
    /\ pc = "done"
    /\ DistinctKeys
    /\ \E i \in 1..Len(records) :
           /\ Alone(i)
           /\ Truthy(records[i].phone)
           /\ \E c \in Holders(records[i]) : returned[c].canonical_phone = None

\* C20: all constituents created by a ConstituentUnifier have pairwise distinct
\* constituent_id values, so no constituent replaces another in
\* unified_constituents, which holds as many entries as constituents were created
C20_UniqueIds ==
    (pc \in {"done", "stats"}) =>
        /\ DistinctIds
        /\ Cardinality(DOMAIN unified_constituents) = Len(returned)

\* the counts of the histogram of the statistics, added up
RECURSIVE HistogramTotal(_, _)
HistogramTotal(dist, counts) ==
    IF counts = {} THEN 0
    ELSE dist[CHOOSE count \in counts : TRUE]
         + HistogramTotal(dist, counts \ {CHOOSE count \in counts : TRUE})

\* C12: after one unify_records call of a new unifier on a non-empty list of
\* distinct record keys, get_match_statistics reports total_constituents =
\* number of constituents returned, total_source_records = number of input
\* records, avg_records_per_constituent = total_source_records /
\* total_constituents, and a record-count histogram of which the counts add up
\* to total_constituents
C12_StatisticsExact ==
    (pc = "stats" /\ records # <<>> /\ returned # <<>> /\ DistinctKeys) =>
        /\ statistics.call = "returned"
        /\ statistics.total_constituents = Len(returned)
        /\ statistics.total_source_records = Len(records)
        /\ statistics.avg_records_per_constituent * statistics.total_constituents
              = statistics.total_source_records * SimScale
        /\ HistogramTotal(statistics.record_count_distribution,
                          DOMAIN statistics.record_count_distribution)
              = statistics.total_constituents

\* the statistics are exact whenever the ids drawn in the run are pairwise
\* distinct
StatisticsExactForDistinctIds ==
    (pc = "stats" /\ records # <<>> /\ returned # <<>> /\ DistinctKeys /\ DistinctIds) =>
        /\ statistics.call = "returned"
        /\ statistics.total_constituents = Len(returned)
        /\ statistics.total_source_records = Len(records)
        /\ statistics.avg_records_per_constituent * statistics.total_constituents
              = statistics.total_source_records * SimScale
        /\ HistogramTotal(statistics.record_count_distribution,
                          DOMAIN statistics.record_count_distribution)
              = statistics.total_constituents

\* statistics of a run that returned two constituents of distinct ids for three
\* records: the average is 3/2
StatisticsOfThreeRecords ==
    /\ pc = "stats"
    /\ DistinctKeys
    /\ DistinctIds
    /\ Len(records) = 3
    /\ Len(returned) = 2
    /\ statistics.call = "returned"
    /\ statistics.keys # {}
    /\ statistics.avg_records_per_constituent * 2 = 3 * SimScale

-----------------------------------------------------------------------------
(* compare_records on a pair of records                                    *)

InitCompare ==
    /\ pc = "compare"
    /\ config \in Configs
    /\ record_a \in CompareUniverse(<<"a">>)
    /\ record_b \in CompareUniverse(<<"b">>)
    /\ ~OnThreshold(config, record_a, record_b)
    /\ match_result = NoResult
    /\ records = <<>>
    /\ email_index = <<>>
    /\ phone_index = <<>>
    /\ unified_constituents = <<>>
    /\ record_to_constituent = <<>>
    /\ returned = <<>>
    /\ enable_probabilistic = TRUE
    /\ phone = <<>>
    /\ normalized = <<>>
    /\ statistics = NoStatistics
    /\ cluster = <<>>
    /\ canonical = NotResolved
    /\ query = None
    /\ candidate_list = <<>>
    /\ found = <<>>
    /\ index_builds = 0
    /\ string_a = <<>>
    /\ string_b = <<>>
    /\ similarity = 0
    /\ permuted = <<>>
    /\ partition_permuted = {}
    /\ float_confidence = DoubleZero
    /\ runs = <<>>
    /\ connector_config = DefaultConnectorConfig
    /\ is_connected = FALSE
    /\ _metrics = NewMetrics
    /\ calls = 0
    /\ attempt = 0
    /\ tries = 0
    /\ last_error = None
    /\ slept = <<>>
    /\ extract_result = NoExtractResult

\* IdentityResolver(config).compare_records(record_a, record_b)
CompareRecords ==
    /\ pc = "compare"
    /\ match_result' = compare_records(config, record_a, record_b)
    /\ pc' = "compared"
    /\ UNCHANGED <<unifierVars, record_a, record_b, phoneVars, statsVars, resolveVars,
                   findVars, similarityVars, orderVars, floatVars,
                   runsVars, connectorVars>>

NextCompare == CompareRecords

SpecCompare == InitCompare /\ [][NextCompare]_vars

-----------------------------------------------------------------------------
(* Properties of compare_records                                           *)

\* both emails are present and equal, and start with no generic prefix of the
\* policy
SharedPersonalEmail ==
    /\ Truthy(record_a.email)
    /\ Truthy(record_b.email)
    /\ record_a.email = record_b.email
    /\ \A generic \in config.generic_emails : ~startswith(record_a.email, generic)

\* both phones are present, equal and at least 10 characters long
SharedFullPhone ==
    /\ Truthy(record_a.phone)
    /\ Truthy(record_b.phone)
    /\ record_a.phone = record_b.phone
    /\ Len(record_a.phone) >= 10

\* the weighted sum of the five feature scores of the pair, in 1/ConfScale
WeightedSum ==
    _calculate_name_similarity(record_a, record_b) * config.name_weight
    + _calculate_address_similarity(record_a, record_b) * config.address_weight
    + _calculate_phone_similarity(record_a, record_b) * config.phone_weight
    + _calculate_email_domain_similarity(record_a, record_b) * config.email_domain_weight
    + _calculate_zip_similarity(record_a, record_b) * config.zip_weight

\* C5: compare_records returns deterministic-email with confidence 1.0 when both
\* emails are present, equal and not generic, whatever the other fields are,
\* and returns deterministic-email in no other case
C5_EmailRule ==
    pc = "compared" =>
        /\ SharedPersonalEmail =>
               /\ match_result.match_type = DETERMINISTIC_EMAIL
               /\ match_result.confidence = ConfScale
        /\ match_result.match_type = DETERMINISTIC_EMAIL => SharedPersonalEmail

\* a deterministic-email result for two records of different phones and
\* different names
C5_Witness ==
    /\ pc = "compared"
    /\ SharedPersonalEmail
    /\ Truthy(record_a.phone)
    /\ Truthy(record_b.phone)
    /\ record_a.phone # record_b.phone
    /\ record_a.full_name # record_b.full_name
    /\ match_result.match_type = DETERMINISTIC_EMAIL

\* C6: when the email rule does not apply and both phones are present, equal
\* and at least 10 characters long, the result is deterministic-phone with
\* confidence 0.95; when both rules apply the result is deterministic-email;
\* equal phones of fewer than 10 characters never give deterministic-phone, the
\* pair is scored by the weighted features
C6_PhoneRule ==
    pc = "compared" =>
        /\ (~SharedPersonalEmail /\ SharedFullPhone) =>
               /\ match_result.match_type = DETERMINISTIC_PHONE
               /\ match_result.confidence = 95 * ScoreScale
        /\ (SharedPersonalEmail /\ SharedFullPhone) =>
               match_result.match_type = DETERMINISTIC_EMAIL
        /\ (Truthy(record_a.phone) /\ record_a.phone = record_b.phone
                /\ Len(record_a.phone) < 10) =>
               /\ match_result.match_type # DETERMINISTIC_PHONE
               /\ ~SharedPersonalEmail =>
                      /\ match_result.match_type \in {PROBABILISTIC, MANUAL_REVIEW, NO_MATCH}
                      /\ match_result.confidence = WeightedSum
        /\ match_result.match_type = DETERMINISTIC_PHONE => SharedFullPhone

\* a deterministic-phone result for two records of different emails
C6_Witness ==
    /\ pc = "compared"
    /\ Truthy(record_a.email)
    /\ Truthy(record_b.email)
    /\ record_a.email # record_b.email
    /\ SharedFullPhone
    /\ match_result.match_type = DETERMINISTIC_PHONE

-----------------------------------------------------------------------------
(* SourceRecord._normalize_phone on a phone string                         *)

InitPhone ==
    /\ pc = "phone"
    /\ phone = <<>>
    /\ normalized = <<>>
    /\ statistics = NoStatistics
    /\ cluster = <<>>
    /\ canonical = NotResolved
    /\ query = None
    /\ candidate_list = <<>>
    /\ found = <<>>
    /\ index_builds = 0
    /\ string_a = <<>>
    /\ string_b = <<>>
    /\ similarity = 0
    /\ permuted = <<>>
    /\ partition_permuted = {}
    /\ config = NotBuilt
    /\ records = <<>>
    /\ email_index = <<>>
    /\ phone_index = <<>>
    /\ unified_constituents = <<>>
    /\ record_to_constituent = <<>>
    /\ returned = <<>>
    /\ enable_probabilistic = TRUE
    /\ record_a = None
    /\ record_b = None
    /\ match_result = NoResult
    /\ float_confidence = DoubleZero
    /\ runs = <<>>
    /\ connector_config = DefaultConnectorConfig
    /\ is_connected = FALSE
    /\ _metrics = NewMetrics
    /\ calls = 0
    /\ attempt = 0
    /\ tries = 0
    /\ last_error = None
    /\ slept = <<>>
    /\ extract_result = NoExtractResult

\* the caller's phone string grows by one character
TypePhone(c) ==
    /\ pc = "phone"
    /\ Len(phone) < MaxPhoneLen
    /\ c \notin Digits => Len(SelectSeq(phone, LAMBDA d : d \notin Digits)) < MaxSeparators
    /\ phone' = Append(phone, c)
    /\ UNCHANGED <<unifierVars, pc, compareVars, normalized, statsVars, resolveVars,
                   findVars, similarityVars, orderVars, floatVars,
                   runsVars, connectorVars>>

\* the phone field of SourceRecord(..., phone=p)
PhoneField(p) ==
    SourceRecord(RawRecord(<<"a">>, <<"1">>, None, p, None, None, None,
                           None, None, None, None, NoTime)).phone

\* SourceRecord(..., phone=phone), and a SourceRecord built from its phone field
NormalizePhone ==
    /\ pc = "phone"
    /\ normalized' = <<PhoneField(phone), PhoneField(PhoneField(phone))>>
    /\ pc' = "normalized"
    /\ UNCHANGED <<unifierVars, compareVars, phone, statsVars, resolveVars, findVars,
                   similarityVars, orderVars, floatVars, runsVars,
                   connectorVars>>

NextPhone ==
    \/ \E c \in PhoneAlphabet : TypePhone(c)
    \/ NormalizePhone

SpecPhone == InitPhone /\ [][NextPhone]_vars

-----------------------------------------------------------------------------
(* Properties of the phone normalization                                   *)

\* the digits of the phone string
PhoneDigits == SelectSeq(phone, LAMBDA c : c \in Digits)

\* C8: a phone of exactly 10 digits, or of exactly 11 digits with a leading 1,
\* becomes the 10-digit string; every other phone string is kept unchanged;
\* normalizing a normalized value returns it unchanged; a 10-digit number and
\* the same number prefixed with 1 normalize to equal values
C8_PhoneNormalization ==
    pc = "normalized" =>
        /\ Len(PhoneDigits) = 10 => normalized[1] = PhoneDigits
        /\ (Len(PhoneDigits) = 11 /\ PhoneDigits[1] = "1") => normalized[1] = Tail(PhoneDigits)
        /\ (Len(PhoneDigits) # 10 /\ ~(Len(PhoneDigits) = 11 /\ PhoneDigits[1] = "1"))
              => normalized[1] = phone
        /\ normalized[2] = normalized[1]
        /\ Len(PhoneDigits) = 10 => PhoneField(<<"1">> \o phone) = normalized[1]

\* a formatted phone of 11 digits with a leading 1, normalized to 10 digits
C8_Witness ==
    /\ pc = "normalized"
    /\ Len(PhoneDigits) = 11
    /\ PhoneDigits[1] = "1"
    /\ Len(phone) > 11
    /\ normalized[1] = Tail(PhoneDigits)
    /\ normalized[2] = Tail(PhoneDigits)

-----------------------------------------------------------------------------
(* The scenario of four records of three source systems                     *)

\* the dates of the scenario, in their order
Date_2023_01_15 == 1
Date_2023_03_01 == 2
Date_2023_06_20 == 3
Date_2024_03_10 == 4

\* the WBEZ donation record of John Smith
ScenarioWbez ==
  SourceRecord(
    RawRecord(<<"w", "b", "e", "z">>, <<"D", "-", "0", "0", "1">>,
              <<"j", "@", "x", ".", "c", "o", "m">>,
              <<"3", "1", "2", "-", "5", "5", "5", "-", "1", "2", "3", "4">>,
              <<"J", "o", "h", "n">>, <<"S", "m", "i", "t", "h">>,
              None,
              None, None, None, None, Date_2023_01_15))

\* the Sun-Times subscription: another email, the same phone
ScenarioSuntimes ==
  SourceRecord(
    RawRecord(<<"s", "u", "n", "t", "i", "m", "e", "s">>, <<"S", "-", "0", "0", "1">>,
              <<"j", "m", "@", "y", ".", "c", "o", "m">>,
              <<"3", "1", "2", "-", "5", "5", "5", "-", "1", "2", "3", "4">>,
              None, None,
              <<"J", "o", "h", "n", " ", "M", " ", "S", "m", "i", "t", "h">>,
              None, None, None, None, Date_2023_06_20))

\* the event ticket: the email of the WBEZ record
ScenarioEvents ==
  SourceRecord(
    RawRecord(<<"e", "v", "e", "n", "t", "s">>, <<"E", "-", "0", "0", "1">>,
              <<"j", "@", "x", ".", "c", "o", "m">>,
              None,
              None, None,
              <<"J", ".", " ", "S", "m", "i", "t", "h">>,
              None, None, None, None, Date_2024_03_10))

\* a different person
ScenarioMary ==
  SourceRecord(
    RawRecord(<<"w", "b", "e", "z">>, <<"D", "-", "0", "0", "2">>,
              <<"m", "a", "r", "y", "@", "z", ".", "c", "o", "m">>,
              None,
              <<"M", "a", "r", "y">>, <<"J", "o", "n", "e", "s">>,
              None,
              None, None, None, None, Date_2023_03_01))

ScenarioRecords == {ScenarioWbez, ScenarioSuntimes, ScenarioEvents, ScenarioMary}

\* the caller appends a record of the scenario it has not appended yet
AppendScenarioRecord(r) ==
    /\ pc = "built"
    /\ \A n \in 1..Len(records) : records[n] # r
    /\ records' = Append(records, r)
    /\ UNCHANGED <<config, email_index, phone_index, unified_constituents,
                   record_to_constituent, returned, enable_probabilistic, pc,
                   compareVars, phoneVars, statsVars, resolveVars,
                   findVars, similarityVars, orderVars, floatVars,
                   runsVars, connectorVars>>

\* a unifier of the default policy unifies records of the scenario, in any order
NextScenario ==
    \/ ConstituentUnifier(MatchConfig)
    \/ \E r \in ScenarioRecords : AppendScenarioRecord(r)
    \/ \E enable \in BOOLEAN : UnifyRecords(enable)

SpecScenario == Init /\ [][NextScenario]_vars

\* C13: unifying the four records of the scenario under the default policy
\* (in any order, with or without probabilistic matching) yields exactly 2
\* constituents, one of the three records of John Smith and one of Mary's
\* record alone, and the canonical email of the former is j@x.com, the email
\* of the events record, which is the most recently updated
C13_Scenario ==
    (pc = "done" /\ Len(records) = 4) =>
        /\ Len(returned) = 2
        /\ \E c, d \in 1..2 :
               /\ c # d
               /\ Len(returned[c].source_records) = 3
               /\ {returned[c].source_records[n] : n \in 1..3}
                      = {ScenarioWbez, ScenarioSuntimes, ScenarioEvents}
               /\ returned[d].source_records = <<ScenarioMary>>
               /\ returned[c].canonical_email = <<"j", "@", "x", ".", "c", "o", "m">>
               /\ returned[c].canonical_email = ScenarioEvents.email
               /\ \A n \in 1..3 :
                      returned[c].source_records[n].updated_at <= ScenarioEvents.updated_at

\* the four records unified in the order of the scenario
C13_Witness ==
    /\ pc = "done"
    /\ records = <<ScenarioWbez, ScenarioSuntimes, ScenarioEvents, ScenarioMary>>
    /\ Len(returned) = 2
    /\ Len(returned[1].source_records) = 3
    /\ returned[1].canonical_email = ScenarioEvents.email

-----------------------------------------------------------------------------
(* ConflictResolver on one cluster                                          *)

\* the longest cluster resolved
MaxCluster == 3

\* the update timestamps of the records of a cluster: none, or one of two dates
Timestamps == {NoTime, 1, 2}

\* a record with every field but the full name
Personal(updated_at) ==
  SourceRecord(
    RawRecord(<<"w", "b", "e", "z">>, <<"D", "1">>, <<"j", "@", "x", ".", "c", "o">>,
              <<"3", "1", "2", "5", "5", "5", "1", "2", "3", "4">>,
              <<"J", "o">>, <<"S", "m", "i", "t", "h">>,
              None,
              <<"1", " ", "M", "a", "i", "n", " ", "S", "t">>, <<"C", "h", "i", "c", "a", "g", "o">>, <<"I", "L">>,
              <<"6", "0", "6", "0", "1">>, updated_at))

\* an info@ email, a phone of 7 digits, a full name only, a city without address line
Generic(updated_at) ==
  SourceRecord(
    RawRecord(<<"s", "u", "n">>, <<"S", "1">>, <<"i", "n", "f", "o", "@", "x", ".", "c", "o">>,
              <<"5", "5", "5", "1", "2", "3", "4">>,
              None, None,
              <<"J", "o", "h", "n", "n", "y", " ", "S", "m", "i", "t", "h", "s", "o", "n">>,
              None, <<"E", "v", "a", "n", "s", "t", "o", "n">>, <<"I", "L">>,
              <<"6", "0", "2", "0", "1">>, updated_at))

\* a hello@ email, a full name of one word
Hello(updated_at) ==
  SourceRecord(
    RawRecord(<<"e", "v", "t">>, <<"E", "1">>, <<"h", "e", "l", "l", "o", "@", "x", ".", "c", "o">>,
              None,
              None, None,
              <<"C", "h", "e", "r">>,
              <<"2", " ", "O", "a", "k", " ", "A", "v">>, <<"E", "v", "a", "n", "s", "t", "o", "n">>, <<"I", "L">>,
              <<"6", "0", "2", "0", "1">>, updated_at))

\* no email, a first name and a full name, no last name
FirstOnly(updated_at) ==
  SourceRecord(
    RawRecord(<<"w", "e", "b">>, <<"W", "1">>, None,
              <<"7", "7", "3", "5", "5", "5", "0", "0", "0", "0">>,
              <<"J", "o", "n", "a", "t", "h", "a", "n">>, None,
              <<"J", " ", "Q", " ", "P", "u", "b", "l", "i", "c">>,
              None, None, None,
              None, updated_at))

\* a last name and a full name, an address line without city and state
LastOnly(updated_at) ==
  SourceRecord(
    RawRecord(<<"c", "r", "m">>, <<"C", "1">>, <<"a", "n", "n", "@", "y", ".", "o", "r", "g">>,
              None,
              None, <<"L", "e", "e">>,
              <<"A", "n", "n", " ", "L", "e", "e", "d", "s">>,
              <<"3", " ", "E", "l", "m">>, None, None,
              <<"6", "0", "6", "0", "1">>, updated_at))

ClusterUniverse ==
    UNION {{Personal(t), Generic(t), Hello(t), FirstOnly(t), LastOnly(t)} : t \in Timestamps}

\* the default policy with prefer_most_recent switched off
FirstPresentConfig == [MatchConfig EXCEPT !.prefer_most_recent = FALSE]

ResolveConfigs == {MatchConfig, FirstPresentConfig}

\* a record joins the cluster: the keys of a cluster are distinct
AddToCluster(r) ==
    /\ pc = "built"
    /\ Len(cluster) < MaxCluster
    /\ \A n \in 1..Len(cluster) : record_key(cluster[n]) # record_key(r)
    /\ cluster' = Append(cluster, r)
    /\ UNCHANGED <<unifierVars, pc, compareVars, phoneVars, statsVars, canonical,
                   findVars, similarityVars, orderVars, floatVars,
                   runsVars, connectorVars>>

\* unifier._create_unified_constituent(cluster, []): the four resolvers on the
\* records of the cluster
CreateUnifiedConstituent ==
    /\ pc = "built"
    /\ cluster # <<>>
    /\ \E constituent_id \in _generate_constituent_id({}) :
           canonical' = _create_unified_constituent(config, constituent_id, cluster, <<>>)
    /\ pc' = "created"
    /\ UNCHANGED <<config, records, email_index, phone_index, unified_constituents,
                   record_to_constituent, returned, enable_probabilistic,
                   compareVars, phoneVars, statsVars, cluster,
                   findVars, similarityVars, orderVars, floatVars,
                   runsVars, connectorVars>>

NextResolve ==
    \/ \E cfg \in ResolveConfigs : ConstituentUnifier(cfg)
    \/ \E r \in ClusterUniverse : AddToCluster(r)
    \/ CreateUnifiedConstituent

SpecResolve == Init /\ [][NextResolve]_vars

\* the positions of the cluster of which the field is present
WithEmail == {i \in 1..Len(cluster) : Truthy(cluster[i].email)}

WithPhone == {i \in 1..Len(cluster) : Truthy(cluster[i].phone)}

WithAddress == {i \in 1..Len(cluster) : Truthy(cluster[i].address_line1)}

\* the positions of the phones of 10 characters or more
Eligible == {i \in WithPhone : Len(cluster[i].phone) >= 10}

\* the positions of S of which the record has an update timestamp
Timestamped(S) == {i \in S : cluster[i].updated_at # NoTime}

\* the first position of S
First(S) == CHOOSE i \in S : \A j \in S : i <= j

\* the position of S of the latest update timestamp, the first of them in
\* record order
Latest(S) ==
    CHOOSE i \in S :
        /\ \A j \in S : cluster[j].updated_at <= cluster[i].updated_at
        /\ \A j \in S : j < i => cluster[j].updated_at < cluster[i].updated_at

\* C15: the canonical phone of a constituent (default preference for the most
\* recent) is null or a phone of at least 10 characters of one of its source
\* records: with update timestamps, the phone of the most recently updated
\* record among those with a phone of 10 characters or more, otherwise the
\* first such phone in record order
C15_PhoneEligible ==
    (pc = "created" /\ config.prefer_most_recent) =>
        /\ \/ canonical.canonical_phone = None
           \/ \E i \in Eligible : canonical.canonical_phone = cluster[i].phone
        /\ canonical.canonical_phone =
              IF Eligible = {} THEN None
              ELSE IF Timestamped(Eligible) # {}
                   THEN cluster[Latest(Timestamped(Eligible))].phone
              ELSE cluster[First(Eligible)].phone

\* the positions of the emails that start with none of the generic prefixes of
\* the policy
NonGeneric == {i \in WithEmail : ~_is_generic_email(config, cluster[i].email)}

\* C16: when no record of the cluster that has an email has an update
\* timestamp, the canonical email is the first email in record order that
\* starts with none of the generic prefixes of the policy, the first email
\* when all are generic, and null only when no record has an email
C16_EmailWithoutTimestamps ==
    (pc = "created" /\ Timestamped(WithEmail) = {}) =>
        canonical.canonical_email =
            IF WithEmail = {} THEN None
            ELSE IF NonGeneric # {} THEN cluster[First(NonGeneric)].email
            ELSE cluster[First(WithEmail)].email

\* C17: with prefer_most_recent enabled, when a record of the cluster has an
\* email and an update timestamp, the canonical email is the email of the
\* record of the latest update timestamp among the records with an email (the
\* earliest in input order on equal timestamps), generic or not
C17_EmailWithTimestamps ==
    (pc = "created" /\ config.prefer_most_recent /\ Timestamped(WithEmail) # {}) =>
        canonical.canonical_email = cluster[Latest(Timestamped(WithEmail))].email

\* two records of the latest timestamp, the generic email of the earlier one
\* is the canonical email and the later one has a personal email
C17_Witness ==
    /\ pc = "created"
    /\ config.prefer_most_recent
    /\ \E i, j \in Timestamped(WithEmail) :
           /\ i < j
           /\ i = Latest(Timestamped(WithEmail))
           /\ cluster[i].updated_at = cluster[j].updated_at
           /\ i \notin NonGeneric
           /\ j \in NonGeneric
           /\ canonical.canonical_email = cluster[i].email
           /\ canonical.canonical_email # cluster[j].email

\* the words of the full name of a record
Words(r) == IF Truthy(r.full_name) THEN split(strip(r.full_name)) ELSE <<>>

\* the first-name value a record contributes: its first_name or, without one,
\* the first word of its full name (a single word being a first name)
FirstNameValue(r) ==
    IF Truthy(r.first_name) THEN {r.first_name}
    ELSE IF Len(Words(r)) >= 1 THEN {Words(r)[1]}
    ELSE {}

\* the last-name value a record contributes: its last_name or, without one,
\* the last word of its full name of two words or more
LastNameValue(r) ==
    IF Truthy(r.last_name) THEN {r.last_name}
    ELSE IF Len(Words(r)) >= 2 THEN {Words(r)[Len(Words(r))]}
    ELSE {}

\* name is a longest of the values, or None when there is none
LongestOf(name, values) ==
    IF values = {} THEN name = None
    ELSE /\ name \in values
         /\ \A v \in values : Len(v) <= Len(name)

\* C18: the canonical first name is a longest of the first-name values of the
\* records of the cluster, a record contributing its first_name or, without
\* one, the first word of its full_name (a single word being a first name);
\* the canonical last name likewise and independently; a name is null only
\* when no record contributes a value
C18_CanonicalName ==
    (pc = "created") =>
        /\ LongestOf(canonical.canonical_first_name,
                     UNION {FirstNameValue(cluster[i]) : i \in 1..Len(cluster)})
        /\ LongestOf(canonical.canonical_last_name,
                     UNION {LastNameValue(cluster[i]) : i \in 1..Len(cluster)})

\* the canonical address fields
CanonicalAddress ==
    <<canonical.canonical_address_line1, canonical.canonical_city,
      canonical.canonical_state, canonical.canonical_zip>>

\* the address fields of the record at position i of the cluster
AddressOf(i) ==
    <<cluster[i].address_line1, cluster[i].city, cluster[i].state, cluster[i].zip_code>>

\* C19 as stated: the canonical address line, city, state and zip are those of
\* one record of the cluster, the most recently updated record that has an
\* address line, else the first record that has one; all four are null when no
\* record has an address line
C19_AddressOfMostRecent ==
    (pc = "created") =>
        CanonicalAddress =
            IF WithAddress = {} THEN <<None, None, None, None>>
            ELSE IF Timestamped(WithAddress) # {}
                 THEN AddressOf(Latest(Timestamped(WithAddress)))
            ELSE AddressOf(First(WithAddress))

\* C19 as the code has it: the canonical address line, city, state and zip are
\* those of one record of the cluster, never mixed: with prefer_most_recent
\* enabled the most recently updated record that has an address line, else
\* (and with prefer_most_recent disabled) the first record that has one; all
\* four are null when no record has an address line
C19_AddressAtomic ==
    (pc = "created") =>
        CanonicalAddress =
            IF WithAddress = {} THEN <<None, None, None, None>>
            ELSE IF config.prefer_most_recent /\ Timestamped(WithAddress) # {}
                 THEN AddressOf(Latest(Timestamped(WithAddress)))
            ELSE AddressOf(First(WithAddress))

\* the record chosen has an address line and no city, an earlier record has a
\* city: the canonical city is null
C19_Witness ==
    /\ pc = "created"
    /\ \E i \in Timestamped(WithAddress), j \in WithAddress :
           /\ j < i
           /\ i = Latest(Timestamped(WithAddress))
           /\ config.prefer_most_recent
           /\ ~Truthy(cluster[i].city)
           /\ Truthy(cluster[j].city)
           /\ CanonicalAddress = AddressOf(i)
           /\ canonical.canonical_city = None

-----------------------------------------------------------------------------
(* IdentityResolver: build_indices and find_matches on their own            *)

\* the longest list given to build_indices
MaxIndexed == 2

\* the longest candidates list given to find_matches
MaxCandidates == 2

\* the most build_indices calls on one resolver
MaxBuilds == 2

\* the records indexed, looked up and offered as candidates
FindPool == {JohnD1, JohnS1, JSmithE1, JohnE2, MaryD1}

\* the lists of at most n records
RecordLists(n) == UNION {[1..k -> FindPool] : k \in 0..n}

\* resolver.build_indices(recs)
BuildIndices(recs) ==
    /\ pc \in {"built", "indexed"}
    /\ index_builds < MaxBuilds
    /\ records' = recs
    /\ \E idx \in {build_indices(config, recs)} :
           /\ email_index' = idx.email
           /\ phone_index' = idx.phone
    /\ index_builds' = index_builds + 1
    /\ pc' = "indexed"
    /\ UNCHANGED <<config, unified_constituents, record_to_constituent, returned,
                   enable_probabilistic, compareVars, phoneVars, statsVars, resolveVars,
                   query, candidate_list, found, similarityVars,
                   orderVars, floatVars, runsVars, connectorVars>>

\* resolver.find_matches(record, candidates); the empty list is candidates=None
FindMatches(record, candidates) ==
    /\ pc = "indexed"
    /\ query' = record
    /\ candidate_list' = candidates
    /\ found' = find_matches(config, [email |-> email_index, phone |-> phone_index],
                             record, candidates)
    /\ pc' = "found"
    /\ UNCHANGED <<unifierVars, compareVars, phoneVars, statsVars, resolveVars,
                   index_builds, similarityVars, orderVars, floatVars,
                   runsVars, connectorVars>>

NextFind ==
    \/ ConstituentUnifier(MatchConfig)
    \/ \E recs \in RecordLists(MaxIndexed) : BuildIndices(recs)
    \/ \E record \in FindPool, candidates \in RecordLists(MaxCandidates) :
           FindMatches(record, candidates)

SpecFind == Init /\ [][NextFind]_vars

\* the elements of a list
Range(list) == {list[n] : n \in 1..Len(list)}

\* the record keys identify the records: no key twice in the indexed list or in
\* the candidates, and one record per key among them and the record looked up
KeysIdentify ==
    /\ \A i, j \in 1..Len(records) :
           i # j => record_key(records[i]) # record_key(records[j])
    /\ \A i, j \in 1..Len(candidate_list) :
           i # j => record_key(candidate_list[i]) # record_key(candidate_list[j])
    /\ \A x, y \in Range(records) \cup Range(candidate_list) \cup {query} :
           record_key(x) = record_key(y) => x = y

\* the records of the bucket of an index under the field of the record looked up
BucketOf(index, field) ==
    IF Truthy(query[field]) /\ query[field] \in DOMAIN index
    THEN Range(index[query[field]]) ELSE {}

\* the members of the two buckets of the record looked up
BucketMembers == BucketOf(email_index, "email") \cup BucketOf(phone_index, "phone")

\* the other records find_matches has to report: bucket members and candidates
\* of which the comparison with the record is not no-match
Counterparts ==
    {r \in BucketMembers \cup Range(candidate_list) :
        /\ record_key(r) # record_key(query)
        /\ Compared[config][query][r].match_type # NO_MATCH}

C22_IndexContents ==
    (pc \in {"indexed", "found"}) =>
        /\ \A e \in DOMAIN email_index :
               /\ Truthy(e)
               /\ ~_is_generic_email(config, e)
               /\ Range(email_index[e]) = {r \in Range(records) : r.email = e}
               /\ Len(email_index[e])
                      = Cardinality({i \in 1..Len(records) : records[i].email = e})
        /\ \A p \in DOMAIN phone_index :
               /\ Truthy(p)
               /\ Len(p) >= 10
               /\ Range(phone_index[p]) = {r \in Range(records) : r.phone = p}
               /\ Len(phone_index[p])
                      = Cardinality({i \in 1..Len(records) : records[i].phone = p})
        /\ \A i \in 1..Len(records) :
               /\ (Truthy(records[i].email) /\ ~_is_generic_email(config, records[i].email))
                      <=> records[i].email \in DOMAIN email_index
               /\ (Truthy(records[i].phone) /\ Len(records[i].phone) >= 10)
                      <=> records[i].phone \in DOMAIN phone_index

\* the second build_indices call on the resolver indexed one record by email
\* and phone and left out a record of a generic email
C22_Witness ==
    /\ pc = "indexed"
    /\ index_builds = 2
    /\ Len(records) = 2
    /\ DOMAIN email_index # {}
    /\ DOMAIN phone_index # {}
    /\ \E i \in 1..2 :
           /\ Truthy(records[i].email)
           /\ records[i].email \notin DOMAIN email_index

-----------------------------------------------------------------------------
(* jaro_winkler_similarity on its own                                       *)

\* the longest string compared
MaxStringLen == 3

\* the characters of the strings compared: two letters, one of them in both cases
SimilarityAlphabet == {"a", "b", "A"}

SimilarityStrings == UNION {[1..n -> SimilarityAlphabet] : n \in 0..MaxStringLen}

\* the caller picks the two strings
ChooseStrings(a, b) ==
    /\ pc = "new"
    /\ string_a' = a
    /\ string_b' = b
    /\ pc' = "strings"
    /\ UNCHANGED <<unifierVars, compareVars, phoneVars, statsVars, resolveVars, findVars,
                   similarity, orderVars, floatVars, runsVars,
                   connectorVars>>

\* jaro_winkler_similarity(string_a, string_b)
JaroWinklerSimilarity ==
    /\ pc = "strings"
    /\ similarity' = jaro_winkler_similarity(string_a, string_b)
    /\ pc' = "scored"
    /\ UNCHANGED <<unifierVars, compareVars, phoneVars, statsVars, resolveVars, findVars,
                   string_a, string_b, orderVars, floatVars, runsVars,
                   connectorVars>>

NextSimilarity ==
    \/ \E a, b \in SimilarityStrings : ChooseStrings(a, b)
    \/ JaroWinklerSimilarity

SpecSimilarity == Init /\ [][NextSimilarity]_vars

\* C23: jaro_winkler_similarity is symmetric, bounded in [0,1], 1.0 for
\* identical non-empty strings, and 1.0 only for identical strings
C23_Similarity ==
    (pc = "scored") =>
        /\ similarity = jaro_winkler_similarity(string_b, string_a)
        /\ similarity >= 0
        /\ similarity <= SimScale
        /\ (string_a = string_b /\ string_a # <<>>) => similarity = SimScale
        /\ similarity = SimScale => string_a = string_b

\* the part of C23 the fallback has: a value in [0,1], 1.0 for identical strings
SimilarityBounded ==
    (pc = "scored") =>
        /\ similarity >= 0
        /\ similarity <= SimScale
        /\ string_a = string_b => similarity = SimScale

\* two different strings of the same letters compare as 1.0
SimilarityOneForDifferent ==
    /\ pc = "scored"
    /\ string_a # string_b
    /\ lower(string_a) # lower(string_b)
    /\ similarity = SimScale

\* the similarity of the swapped arguments is another
SimilarityAsymmetric ==
    /\ pc = "scored"
    /\ similarity # jaro_winkler_similarity(string_b, string_a)

-----------------------------------------------------------------------------
(* unify_records on a list and on a permutation of it                      *)

\* the longest list that is unified in two orders
MaxPermuted == 3

\* a record that shares the email of JohnD1 and JSmithE1 and compares as
\* manual-review with JohnS1
JohnE4 ==
  SourceRecord(
    RawRecord(<<"e", "v", "t">>, <<"E", "4">>, <<"j", "@", "x", ".", "c", "o">>, None,
              <<"J", "o", "h", "n">>, <<"S", "m", "i", "t", "h">>, None,
              <<"1", " ", "M", "a", "i", "n", " ", "S", "t">>,
              <<"C", "h", "i", "c", "a", "g", "o">>, <<"I", "L">>,
              <<"6", "0", "6", "0", "1">>, NoTime))

\* the records the list is made of, in the order the first unifier gets them:
\* a chain of a shared email and a shared phone, a pair that compares as
\* probabilistic in one direction only, and a record for manual review
OrderPool == <<JohnD1, JohnS1, JSmithE1, AnnLeeD2, AnnLeS2, JohnE4>>

\* the place of a record of the list in OrderPool
PlaceOf(r) == CHOOSE n \in 1..Len(OrderPool) : OrderPool[n] = r

\* the orders of n items
Orders(n) ==
    {p \in [1..n -> 1..n] : \A i, j \in 1..n : i # j => p[i] # p[j]}

\* {frozenset(r.record_key for r in c.source_records) for c in unified_list}
PartitionOf(unified_list) ==
    {{record_key(unified_list[c].source_records[n]) :
          n \in 1..Len(unified_list[c].source_records)} : c \in 1..Len(unified_list)}

\* the caller appends a SourceRecord of a record key the list does not hold;
\* the list is in the order of OrderPool, every other order is a permutation
AppendDistinct(r) ==
    /\ pc = "built"
    /\ Len(records) < MaxPermuted
    /\ \A i \in 1..Len(records) :
           /\ record_key(records[i]) # record_key(r)
           /\ PlaceOf(records[i]) < PlaceOf(r)
    /\ records' = Append(records, r)
    /\ UNCHANGED <<config, email_index, phone_index, unified_constituents,
                   record_to_constituent, returned, enable_probabilistic, pc,
                   compareVars, phoneVars, statsVars, resolveVars,
                   findVars, similarityVars, orderVars, floatVars,
                   runsVars, connectorVars>>

\* ConstituentUnifier(config).unify_records(permuted, enable_probabilistic) on
\* the records in the order p, of which the caller keeps the sets of record keys
UnifyPermutation(p) ==
    /\ pc = "done"
    /\ permuted' = [i \in 1..Len(records) |-> records[p[i]]]
    /\ \E clusters \in {FormClusters(config, [i \in 1..Len(records) |-> records[p[i]]],
                                     enable_probabilistic)} :
       \E ids \in IdDraws(Len(clusters), {}) :
           partition_permuted' = PartitionOf(CreateConstituents(config, clusters, ids))
    /\ pc' = "permuted"
    /\ UNCHANGED <<unifierVars, compareVars, phoneVars, statsVars, resolveVars,
                   findVars, similarityVars, floatVars, runsVars,
                   connectorVars>>

NextOrder ==
    \/ ConstituentUnifier(MatchConfig)
    \/ \E n \in 1..Len(OrderPool) : AppendDistinct(OrderPool[n])
    \/ \E enable \in BOOLEAN : UnifyRecords(enable)
    \/ \E p \in Orders(Len(records)) : UnifyPermutation(p)

SpecOrder == Init /\ [][NextOrder]_vars

\* compare_records of every ordered pair of records of OrderPool
OrderCompared ==
    [a \in Range(OrderPool) |-> [b \in Range(OrderPool) |-> compare_records(MatchConfig, a, b)]]

\* C24: for every permutation of an input list of distinct record keys,
\* unify_records produces the same partition of the record keys into
\* constituents as for the list itself
C24_OrderIndependent ==
    (pc = "permuted") => partition_permuted = PartitionOf(returned)

\* a pair that compares as probabilistic in one direction only is unified in
\* the other order, with a third record, and ends in one constituent both times
C24_Witness ==
    /\ pc = "permuted"
    /\ Len(records) = 3
    /\ enable_probabilistic
    /\ \E i, j \in 1..3 :
           /\ i < j
           /\ OrderCompared[records[i]][records[j]].match_type = PROBABILISTIC
           /\ OrderCompared[records[j]][records[i]].match_type = MANUAL_REVIEW
           /\ \E m, n \in 1..3 : m < n /\ permuted[m] = records[j] /\ permuted[n] = records[i]
           /\ {record_key(records[i]), record_key(records[j])} \in partition_permuted
    /\ Cardinality(partition_permuted) = 2

\* compare_records gives a result other than no-match in one of the directions
Comparable(a, b) ==
    \/ OrderCompared[a][b].match_type # NO_MATCH
    \/ OrderCompared[b][a].match_type # NO_MATCH

\* the two records are in one bucket of the email index or of the phone index
SharesBucket(a, b) ==
    \/ /\ Truthy(a.email)
       /\ a.email = b.email
       /\ \A generic \in MatchConfig.generic_emails : ~startswith(a.email, generic)
    \/ /\ Truthy(a.phone)
       /\ a.phone = b.phone
       /\ Len(a.phone) >= 10

\* the records of the returned constituent c
Members(c) == Range(returned[c].source_records)

\* the match_history of constituent c holds a result of the records a and b
PairInHistory(c, a, b) ==
    \E n \in 1..Len(returned[c].match_history) :
        Pair(returned[c].match_history[n]) = {record_key(a), record_key(b)}

\* the match_history of constituent c holds one result per pair of record keys
\* at most, each of a record of the constituent
HistoryDeduplicated(c) ==
    /\ \A m, n \in 1..Len(returned[c].match_history) :
           m # n => Pair(returned[c].match_history[m]) # Pair(returned[c].match_history[n])
    /\ \A n \in 1..Len(returned[c].match_history) :
           \/ returned[c].match_history[n].record_a \in Members(c)
           \/ returned[c].match_history[n].record_b \in Members(c)

\* C25 as stated: the match_history of a constituent holds at most one result
\* per unordered pair of record keys, each touching a record of the
\* constituent, and a result for every pair of its records that compare as
\* other than no-match
C25_HistoryOfEveryComparable ==
    (pc = "done") =>
        \A c \in 1..Len(returned) :
            /\ HistoryDeduplicated(c)
            /\ \A a, b \in Members(c) : (a # b /\ Comparable(a, b)) => PairInHistory(c, a, b)

\* C25 as the code has it: the match_history of a constituent holds at most
\* one result per unordered pair of record keys, each touching a record of the
\* constituent, and a result for every pair of its records that phase 1
\* compared as other than no-match: with probabilistic matching every pair
\* that compares so in a direction, without it every pair sharing a bucket
C25_HistoryOfEveryFound ==
    (pc = "done") =>
        \A c \in 1..Len(returned) :
            /\ HistoryDeduplicated(c)
            /\ \A a, b \in Members(c) :
                   (a # b /\ IF enable_probabilistic THEN Comparable(a, b)
                                                     ELSE SharesBucket(a, b))
                       => PairInHistory(c, a, b)
            /\ \A n \in 1..Len(returned[c].match_history) :
                   enable_probabilistic
                       \/ SharesBucket(returned[c].match_history[n].record_a,
                                       returned[c].match_history[n].record_b)

\* three records in one constituent of a run without probabilistic matching;
\* two of them share no bucket and compare as manual-review, the history holds
\* the results of the other two pairs
C25_Witness ==
    /\ pc = "done"
    /\ ~enable_probabilistic
    /\ Len(returned) = 1
    /\ Len(returned[1].source_records) = 3
    /\ Len(returned[1].match_history) = 2
    /\ \E a, b \in Members(1) :
           /\ a # b
           /\ ~SharesBucket(a, b)
           /\ OrderCompared[a][b].match_type = MANUAL_REVIEW
           /\ ~PairInHistory(1, a, b)

\* the same for the lists of Spec, in which a record key may occur twice: the
\* records of a result and of a constituent are taken by their record keys
HistoryOfEveryFoundByKey ==
    (pc = "done") =>
        \A c \in 1..Len(returned) :
            /\ \A m, n \in 1..Len(returned[c].match_history) :
                   m # n => Pair(returned[c].match_history[m])
                                # Pair(returned[c].match_history[n])
            /\ \A n \in 1..Len(returned[c].match_history) :
                   Pair(returned[c].match_history[n])
                       \cap {record_key(r) : r \in Members(c)} # {}
            /\ \A a, b \in Members(c) :
                   (a # b /\ IF enable_probabilistic
                             THEN Kind(a, b) # NO_MATCH \/ Kind(b, a) # NO_MATCH
                             ELSE SharesBucket(a, b))
                       => PairInHistory(c, a, b)

-----------------------------------------------------------------------------
(* compare_records in the floats of Python                                 *)

\* MatchConfig(name_weight=0.10, address_weight=0.20, phone_weight=0.30,
\*             email_domain_weight=0.30, zip_weight=0.10)
PhoneEmailConfig ==
    [MatchConfig EXCEPT !.name_weight = 10, !.address_weight = 20, !.phone_weight = 30,
                        !.email_domain_weight = 30, !.zip_weight = 10]

\* MatchConfig(name_weight=0.20, address_weight=0.35, phone_weight=0.05,
\*             email_domain_weight=0.30, zip_weight=0.10)
AddressConfig ==
    [MatchConfig EXCEPT !.name_weight = 20, !.address_weight = 35, !.phone_weight = 5,
                        !.email_domain_weight = 30, !.zip_weight = 10]

\* the policies of the comparison: the default weights and two more sets of
\* five weights that add up to 1
FloatConfigs == {MatchConfig, PhoneEmailConfig, AddressConfig}

FloatEmails ==
    { None,
      <<"j", "@", "x", ".", "c", "o">>,
      <<"i", "n", "f", "o", "@", "x", ".", "c", "o">> }

FloatPhones ==
    { None,
      <<"7", "7", "3", "5", "5", "5", "1", "2", "3", "4">>,
      <<"5", "5", "5", "1", "2", "3", "4">> }

\* <<first_name, last_name>>
FloatNames == { <<None, None>>, <<<<"J", "o", "h", "n">>, <<"S", "m", "i", "t", "h">>>> }

FloatAddresses == { None, <<"1", " ", "M", "a", "i", "n", " ", "S", "t">> }

FloatZips == { None, <<"6", "0", "6", "0", "1">>, <<"6", "0", "6", "1", "4">> }

\* the records of a source system that are compared
FloatUniverse(source_system) ==
    {SourceRecord(RawRecord(source_system, <<"1">>, e, p, n[1], n[2], None,
                            a, None, None, z, NoTime)) :
        e \in FloatEmails, p \in FloatPhones, n \in FloatNames, a \in FloatAddresses,
        z \in FloatZips}

\* the caller takes two records of which the feature scores are 0.0, 0.5 or
\* 1.0, or to which a rule of phase 1 applies
ChoosePair(a, b) ==
    /\ pc = "built"
    /\ EmailRule(config, a, b) \/ PhoneRule(a, b) \/ ExactScores(FeatureScores(a, b))
    /\ record_a' = a
    /\ record_b' = b
    /\ pc' = "pair"
    /\ UNCHANGED <<unifierVars, match_result, phoneVars, statsVars, resolveVars,
                   findVars, similarityVars, orderVars, floatVars,
                   runsVars, connectorVars>>

\* IdentityResolver(config).compare_records(record_a, record_b), with the
\* confidence as a float
CompareInFloats ==
    /\ pc = "pair"
    /\ match_result' = compare_records(config, record_a, record_b)
    /\ float_confidence' =
           IF EmailRule(config, record_a, record_b) THEN DoubleOf(100)
           ELSE IF PhoneRule(record_a, record_b) THEN DoubleOf(95)
           ELSE FloatConfidence(config, FeatureScores(record_a, record_b))
    /\ pc' = "compared"
    /\ UNCHANGED <<unifierVars, record_a, record_b, phoneVars, statsVars, resolveVars,
                   findVars, similarityVars, orderVars, runsVars,
                   connectorVars>>

NextConfidence ==
    \/ \E cfg \in FloatConfigs : ConstituentUnifier(cfg)
    \/ \E a \in FloatUniverse(<<"a">>), b \in FloatUniverse(<<"b">>) : ChoosePair(a, b)
    \/ CompareInFloats

SpecConfidence == Init /\ [][NextConfidence]_vars

\* the five weights of the policy are non-negative and add up to 1 at most
WeightsWithinOne ==
    /\ \A w \in {config.name_weight, config.address_weight, config.phone_weight,
                 config.email_domain_weight, config.zip_weight} : w >= 0
    /\ config.name_weight + config.address_weight + config.phone_weight
           + config.email_domain_weight + config.zip_weight <= 100

\* C26: every MatchResult of compare_records has a confidence in [0,1] when
\* the five weights of the policy are non-negative and add up to 1 at most
C26_ConfidenceBound ==
    (pc = "compared" /\ WeightsWithinOne) =>
        /\ DoubleLeq(DoubleZero, float_confidence)
        /\ DoubleLeq(float_confidence, DoubleOne)

\* the part of C26 that holds: the weighted sum in exact arithmetic is in
\* [0,1], and the float is above 1.0 by one unit of its last place at most
ConfidenceBoundExact ==
    (pc = "compared" /\ WeightsWithinOne) =>
        /\ match_result.confidence >= 0
        /\ match_result.confidence <= ConfScale
        /\ DoubleLeq(float_confidence, [hi |-> DoubleBase, lo |-> 64])

\* a confidence above 1.0 under weights that add up to 1
ConfidenceAboveOne ==
    /\ pc = "compared"
    /\ WeightsWithinOne
    /\ match_result.confidence = ConfScale
    /\ float_confidence = [hi |-> DoubleBase, lo |-> 64]

-----------------------------------------------------------------------------
(* The constituents of unify_records as components of the match results     *)

\* phase 1 compared the input records at positions i and j: every pair with
\* probabilistic matching, the pairs of one index bucket without it
WereCompared(i, j) == enable_probabilistic \/ SharesBucket(records[i], records[j])

\* phase 1 has a union-eligible match result of the records at i and j, of one
\* direction of comparison at least
Matched(i, j) == i # j /\ WereCompared(i, j) /\ Linked(i, j)

\* the positions S and the positions one union-eligible match result away
GrowMatched(S) == S \cup {j \in 1..Len(records) : \E i \in S : Matched(i, j)}

\* the connected component of S in the graph of union-eligible match results
RECURSIVE Component(_)
Component(S) == IF GrowMatched(S) = S THEN S ELSE Component(GrowMatched(S))

\* C27: after unify_records two records are in one constituent exactly when a
\* chain of input records connects them in which every consecutive pair has a
\* union-eligible match result in a direction of comparison: the constituents
\* are the connected components of that graph
C27_ConnectedComponents ==
    (pc = "done" /\ DistinctKeys) =>
        /\ \A i, j \in 1..Len(records) :
               (Holders(records[i]) \cap Holders(records[j]) # {}) <=> (j \in Component({i}))
        /\ \A c \in 1..Len(returned) : \A r \in Members(c) : \E i \in 1..Len(records) :
               /\ records[i] = r
               /\ Members(c) = {records[j] : j \in Component({i})}

\* a run with probabilistic matching on three records: two are one component
\* and one constituent, the third compares as manual-review with both and is a
\* constituent of its own
C27_Witness ==
    /\ pc = "done"
    /\ DistinctKeys
    /\ enable_probabilistic
    /\ Len(records) = 3
    /\ Len(returned) = 2
    /\ \E i, j, k \in 1..3 :
           /\ Component({i}) = {i, j}
           /\ Component({k}) = {k}
           /\ i # j
           /\ Kind(records[k], records[i]) = MANUAL_REVIEW
           /\ Kind(records[k], records[j]) = MANUAL_REVIEW
           /\ Holders(records[i]) = Holders(records[j])
           /\ Holders(records[k]) \cap Holders(records[i]) = {}

\* the positions S and the positions that share a bucket with one of S
GrowBuckets(S) ==
    S \cup {j \in 1..Len(records) : \E i \in S : i # j /\ SharesBucket(records[i], records[j])}

\* the positions a chain of shared non-generic emails and shared phones of 10
\* characters or more connects to S
RECURSIVE BucketChain(_)
BucketChain(S) == IF GrowBuckets(S) = S THEN S ELSE BucketChain(GrowBuckets(S))

\* C28: without probabilistic matching every MatchResult of a match_history
\* is deterministic-email or deterministic-phone, and two records are in one
\* constituent exactly when a chain of shared non-generic emails and shared
\* phones of 10 characters or more connects them
C28_DeterministicOnly ==
    (pc = "done" /\ ~enable_probabilistic) =>
        /\ \A c \in 1..Len(returned) : \A n \in 1..Len(returned[c].match_history) :
               /\ returned[c].match_history[n].match_type
                      \in {DETERMINISTIC_EMAIL, DETERMINISTIC_PHONE}
               /\ SharesBucket(returned[c].match_history[n].record_a,
                               returned[c].match_history[n].record_b)
        /\ DistinctKeys =>
               \A i, j \in 1..Len(records) :
                   (Holders(records[i]) \cap Holders(records[j]) # {})
                       <=> (j \in BucketChain({i}))

\* a run without probabilistic matching that joins three records by a shared
\* email and a shared phone; two of them share neither
C28_Witness ==
    /\ pc = "done"
    /\ ~enable_probabilistic
    /\ DistinctKeys
    /\ Len(records) = 3
    /\ Len(returned) = 1
    /\ Len(returned[1].match_history) = 2
    /\ \E i, j \in 1..3 : i # j /\ ~SharesBucket(records[i], records[j])

\* a run without probabilistic matching that leaves three records alone: two
\* share a generic email, two compare as probabilistic
DeterministicOnlyLeavesAlone ==
    /\ pc = "done"
    /\ ~enable_probabilistic
    /\ DistinctKeys
    /\ Len(records) = 3
    /\ Len(returned) = 3
    /\ \E i, j \in 1..3 :
           /\ i # j
           /\ Truthy(records[i].email)
           /\ records[i].email = records[j].email
    /\ \E i, j \in 1..3 : Kind(records[i], records[j]) = PROBABILISTIC

-----------------------------------------------------------------------------
(* Several calls of unify_records on one ConstituentUnifier                *)

\* the calls of unify_records on one unifier
MaxRuns == 2

\* the records the lists are made of, in the order of the lists: two that
\* share an email, and one of the record key of the first
RunPool == <<JohnD1, JSmithE1, MaryD1>>

\* the caller appends the record at place n of RunPool to the list it will
\* unify; the list is in the order of RunPool
AppendFromRunPool(n) ==
    /\ pc = "built"
    /\ Len(runs) < MaxRuns
    /\ \A i \in 1..Len(records) : \E m \in 1..(n - 1) : records[i] = RunPool[m]
    /\ records' = Append(records, RunPool[n])
    /\ UNCHANGED <<config, email_index, phone_index, unified_constituents,
                   record_to_constituent, returned, enable_probabilistic, pc,
                   compareVars, phoneVars, statsVars, resolveVars,
                   findVars, similarityVars, orderVars, floatVars, runsVars,
                   connectorVars>>

\* the caller keeps the list it gave and the list it got, and starts the list
\* of the next call on the same unifier
KeepRun ==
    /\ pc = "done"
    /\ runs' = Append(runs, [records |-> records, returned |-> returned])
    /\ records' = <<>>
    /\ returned' = <<>>
    /\ pc' = "built"
    /\ UNCHANGED <<config, email_index, phone_index, unified_constituents,
                   record_to_constituent, enable_probabilistic,
                   compareVars, phoneVars, statsVars, resolveVars,
                   findVars, similarityVars, orderVars, floatVars,
                   connectorVars>>

\* a call of unify_records when the unifier has run fewer than MaxRuns calls
UnifyRun(enable) == Len(runs) < MaxRuns /\ UnifyRecords(enable)

NextRuns ==
    \/ ConstituentUnifier(MatchConfig)
    \/ \E n \in 1..Len(RunPool) : AppendFromRunPool(n)
    \/ \E enable \in BOOLEAN : UnifyRun(enable)
    \/ KeepRun
    \/ GetMatchStatistics

SpecRuns == Init /\ [][NextRuns]_vars

\* every call of unify_records so far is one of runs
AllKept == records = <<>> /\ returned = <<>>

\* the constituents the first n calls returned
RECURSIVE TotalReturned(_)
TotalReturned(n) == IF n = 0 THEN 0 ELSE Len(runs[n].returned) + TotalReturned(n - 1)

\* the records the first n calls were given
RECURSIVE TotalGiven(_)
TotalGiven(n) == IF n = 0 THEN 0 ELSE Len(runs[n].records) + TotalGiven(n - 1)

\* the constituents of all calls: call n, place c of the list it returned
RunConstituents ==
    UNION {{<<n, c>> : c \in 1..Len(runs[n].returned)} : n \in 1..Len(runs)}

\* no id was drawn twice, in one call or in two
NoIdCollision ==
    \A x, y \in RunConstituents :
        x # y => runs[x[1]].returned[x[2]].constituent_id
                     # runs[y[1]].returned[y[2]].constituent_id

\* the record keys of the list of call n
KeysOfRun(n) == {record_key(runs[n].records[i]) : i \in 1..Len(runs[n].records)}

\* the last call of which the list holds the key
LatestRunOf(key) ==
    CHOOSE n \in 1..Len(runs) :
        /\ key \in KeysOfRun(n)
        /\ \A m \in (n + 1)..Len(runs) : key \notin KeysOfRun(m)

\* record_to_constituent maps every key of every call to the id of the
\* constituent that the latest call with the key created for it
MapsToLatest ==
    /\ DOMAIN record_to_constituent = UNION {KeysOfRun(n) : n \in 1..Len(runs)}
    /\ \A key \in DOMAIN record_to_constituent :
       \E c \in 1..Len(runs[LatestRunOf(key)].returned) :
           /\ runs[LatestRunOf(key)].returned[c].constituent_id = record_to_constituent[key]
           /\ \E r \in Range(runs[LatestRunOf(key)].returned[c].source_records) :
                  record_key(r) = key

\* the statistics count the constituents and the records of all calls
CountsAllRuns ==
    /\ statistics.call = "returned"
    /\ statistics.total_constituents = TotalReturned(Len(runs))
    /\ statistics.total_source_records = TotalGiven(Len(runs))

\* C29: after k calls of unify_records on one unifier without an id
\* collision, get_match_statistics reports the constituents of all k returned
\* lists and the records of all k lists given, and record_to_constituent maps
\* every record key to the id of the constituent the latest call holding the
\* key created for it
C29_Accumulation ==
    (pc = "stats" /\ AllKept /\ TotalReturned(Len(runs)) > 0 /\ NoIdCollision) =>
        /\ CountsAllRuns
        /\ MapsToLatest

\* the accumulation when no list holds a record key twice
AccumulationOfDistinctKeys ==
    (/\ pc = "stats"
     /\ AllKept
     /\ TotalReturned(Len(runs)) > 0
     /\ NoIdCollision
     /\ \A n \in 1..Len(runs) : Cardinality(KeysOfRun(n)) = Len(runs[n].records)) =>
        /\ CountsAllRuns
        /\ MapsToLatest

\* two calls on lists that share a record key, without an id collision: the
\* statistics count the constituents of both calls
AccumulatedTwoRuns ==
    /\ pc = "stats"
    /\ AllKept
    /\ Len(runs) = 2
    /\ NoIdCollision
    /\ \A n \in 1..2 : Cardinality(KeysOfRun(n)) = Len(runs[n].records)
    /\ KeysOfRun(1) \cap KeysOfRun(2) # {}
    /\ Len(runs[1].records) = 2
    /\ statistics.total_constituents = Len(runs[1].returned) + Len(runs[2].returned)
    /\ statistics.total_source_records > Cardinality(DOMAIN record_to_constituent)

-----------------------------------------------------------------------------
(* SpecConnector: extract_with_retry of a connector, attempt by attempt    *)

MaxRetries == 3
MaxCalls == 2

\* the values of retry_delay_seconds that a ConnectorConfig is built with
RetryDelays == {-1, 0, 1}

\* len(records) of a successful extract
RecordCounts == {0, 2}

\* what extract_with_retry leaves alone
besideConnector == <<unifierVars, compareVars, phoneVars, statsVars,
                     resolveVars, findVars, similarityVars, orderVars,
                     floatVars, runsVars>>

\* no call of extract_with_retry is running
BetweenCalls == pc \in {"idle", "returned", "raised"}

\* BaseConnector.__init__ of a concrete connector
BaseConnector(max_retries, retry_delay_seconds) ==
    /\ pc = "new"
    /\ connector_config' = ConnectorConfig(max_retries, retry_delay_seconds)
    /\ is_connected' = FALSE
    /\ _metrics' = NewMetrics
    /\ pc' = "idle"
    /\ UNCHANGED <<calls, attempt, tries, last_error, slept, extract_result,
                   besideConnector>>

\* disconnect of the concrete connectors, between two calls
Disconnect ==
    /\ BetweenCalls
    /\ is_connected
    /\ is_connected' = FALSE
    /\ UNCHANGED <<connector_config, _metrics, calls, attempt, tries,
                   last_error, slept, extract_result, pc, besideConnector>>

\* extract_with_retry up to the head of its loop
ExtractWithRetry ==
    /\ BetweenCalls
    /\ calls < MaxCalls
    /\ calls' = calls + 1
    /\ _metrics' = [_metrics EXCEPT !.extracts_attempted = @ + 1]
    /\ last_error' = None
    /\ attempt' = 0
    /\ tries' = 0
    /\ slept' = <<>>
    /\ extract_result' = NoExtractResult
    /\ pc' = "loop"
    /\ UNCHANGED <<connector_config, is_connected, besideConnector>>

\* an iteration of the loop in which connect, if called, and extract succeed:
\* the call returns the count of the n records
AttemptSucceeds(n) ==
    /\ pc = "loop"
    /\ attempt < connector_config.max_retries
    /\ tries' = tries + 1
    /\ is_connected' = TRUE
    /\ _metrics' = [_metrics EXCEPT
                       !.extracts_succeeded = @ + 1,
                       !.total_records_extracted = @ + n,
                       !.total_extraction_time_seconds = @ + SumOf(slept)]
    /\ extract_result' = ExtractResult(n, TRUE, None)
    /\ pc' = "returned"
    /\ UNCHANGED <<connector_config, calls, attempt, last_error, slept,
                   besideConnector>>

\* the handler of "except Exception" after last_error is set: the sleep, whose
\* time.sleep raises ValueError for a negative delay, and the next iteration
Handle ==
    IF SleepsAfter(attempt, connector_config.max_retries)
    THEN IF DelayOf(connector_config.retry_delay_seconds, attempt) < 0
         THEN /\ extract_result' = Raised("ValueError")
              /\ pc' = "raised"
              /\ UNCHANGED <<attempt, slept>>
         ELSE /\ slept' = Append(slept, DelayOf(connector_config.retry_delay_seconds, attempt))
              /\ attempt' = attempt + 1
              /\ UNCHANGED <<extract_result, pc>>
    ELSE /\ attempt' = attempt + 1
         /\ UNCHANGED <<extract_result, slept, pc>>

\* an iteration of the loop in which connect or extract raises: an Exception
\* is handled, any other exception leaves the call
AttemptFails(where, exception) ==
    /\ pc = "loop"
    /\ attempt < connector_config.max_retries
    /\ where = "connect" => ~is_connected
    /\ tries' = tries + 1
    /\ is_connected' = (is_connected \/ where = "extract")
    /\ IF exception = "Exception"
       THEN /\ last_error' = ErrorOf(where, attempt)
            /\ Handle
       ELSE /\ extract_result' = Raised(exception)
            /\ pc' = "raised"
            /\ UNCHANGED <<last_error, attempt, slept>>
    /\ UNCHANGED <<connector_config, _metrics, calls, besideConnector>>

\* the loop is exhausted: the call counts a failure and returns it
GiveUp ==
    /\ pc = "loop"
    /\ attempt >= connector_config.max_retries
    /\ _metrics' = [_metrics EXCEPT !.extracts_failed = @ + 1]
    /\ extract_result' = ExtractResult(0, FALSE, last_error)
    /\ pc' = "returned"
    /\ UNCHANGED <<connector_config, is_connected, calls, attempt, tries,
                   last_error, slept, besideConnector>>

\* a step of a running call
StepOfCall ==
    \/ \E n \in RecordCounts : AttemptSucceeds(n)
    \/ \E where \in {"connect", "extract"} :
           \E exception \in {"Exception", "KeyboardInterrupt"} :
               AttemptFails(where, exception)
    \/ GiveUp

NextConnector ==
    \/ \E max_retries \in 0..MaxRetries :
           \E retry_delay_seconds \in RetryDelays :
               BaseConnector(max_retries, retry_delay_seconds)
    \/ Disconnect
    \/ ExtractWithRetry
    \/ StepOfCall

\* a call that runs takes its next step: the thread of the caller is scheduled
SpecConnector == Init /\ [][NextConnector]_vars /\ WF_vars(StepOfCall)

\* the delays of the k failed attempts that were followed by another attempt
DelaysBefore(k) ==
    [i \in 1..k |-> DelayOf(connector_config.retry_delay_seconds, i - 1)]

\* the calls begun that _metrics counts neither as succeeded nor as failed
Unaccounted ==
    _metrics.extracts_attempted
        - _metrics.extracts_succeeded - _metrics.extracts_failed

\* the call returned success at the first attempt that succeeded, having
\* waited between the attempts before it
ReturnedSuccess ==
    /\ tries = attempt + 1
    /\ extract_result.record_count \in RecordCounts
    /\ slept = DelaysBefore(attempt)

\* the call returned failure after max_retries failed attempts, with no wait
\* after the last one
ReturnedFailure ==
    /\ tries = connector_config.max_retries
    /\ extract_result.record_count = 0
    /\ extract_result.error_message = last_error
    /\ (tries > 0) => \E where \in {"connect", "extract"} :
                          last_error = ErrorOf(where, tries - 1)
    /\ Len(slept) = tries - 1 \/ (tries = 0 /\ slept = <<>>)
    /\ slept = DelaysBefore(Len(slept))

\* connect or extract raised what is no Exception, and it left the call: no
\* attempt failed, the call was interrupted
Interrupted ==
    pc = "raised" /\ extract_result.exception = "KeyboardInterrupt"

\* what the claim says of every state of a connector
RetryIsBounded ==
    /\ (pc = "raised") => Interrupted
    /\ tries <= connector_config.max_retries
    /\ (pc = "returned" /\ extract_result.success) => ReturnedSuccess
    /\ (pc = "returned" /\ ~extract_result.success) => ReturnedFailure

\* what the claim says of the end of a call: it is counted as succeeded or as
\* failed
EndIsCounted ==
    (pc = "loop" /\ pc' \in {"returned", "raised"} /\ ~Interrupted')
        => Unaccounted' = Unaccounted - 1

\* C30: whatever Exception connect and extract raise in the attempts,
\* extract_with_retry never raises and always terminates; it makes at
\* most max_retries attempts, returns success with the record count at the
\* first attempt that succeeds, returns failure with record_count 0 and the
\* last error message once all attempts have failed, waits
\* retry_delay_seconds * 2^attempt between attempts but not after the last
\* one, and after every completed call extracts_attempted =
\* extracts_succeeded + extracts_failed, every call adding one to each side.
C30_BoundedRetry ==
    /\ [](RetryIsBounded)
    /\ [][EndIsCounted]_vars
    /\ (pc = "loop") ~> (pc = "returned" \/ Interrupted)

\* a call ends: it returns or it raises
CallEnds == (pc = "loop") ~> (pc \in {"returned", "raised"})

\* a call raises only what connect or extract raised that is no Exception,
\* or the ValueError of time.sleep for a negative delay
RaisesOnlyWhatEscapes ==
    (pc = "raised") =>
        \/ extract_result.exception = "KeyboardInterrupt"
        \/ /\ extract_result.exception = "ValueError"
           /\ connector_config.retry_delay_seconds < 0
           /\ last_error # None

\* what the claim says of the attempts, the result and the waits of a call
\* that returned
ReturnedAsBounded ==
    /\ tries <= connector_config.max_retries
    /\ (pc = "returned" /\ extract_result.success) => ReturnedSuccess
    /\ (pc = "returned" /\ ~extract_result.success) => ReturnedFailure

\* a call that returns is counted as succeeded or failed, a call that raises
\* is counted as neither
CountsWhatReturns ==
    [][(pc = "loop") =>
           /\ (pc' = "returned") => Unaccounted' = Unaccounted - 1
           /\ (pc' = "raised") => Unaccounted' = Unaccounted]_vars

\* a first attempt failed, the delay was negative, and the call raised
RaisedInSleep ==
    /\ pc = "raised"
    /\ extract_result = Raised("ValueError")
    /\ connector_config = ConnectorConfig(3, -1)
    /\ tries = 1
    /\ Unaccounted = 1

\* a later call returned on a connector that counts a raised call as neither
ReturnedAfterRaise == pc = "returned" /\ Unaccounted = 1

\* two attempts failed and the third succeeded, after waits of 1 and 2
SucceededAtThird ==
    /\ pc = "returned"
    /\ extract_result.success
    /\ tries = 3
    /\ slept = <<1, 2>>

====
